---- MODULE Spec2Model ----
(***************************************************************************)
(* Model of the OptimusCredit financial engine: FinancialCalculator        *)
(* (src/src/App.tsx) - ratios, BCEAO/sectoral norms, scoring, compliance,  *)
(* insights and recommendations; ExcelProcessor (src/unnamed/part_004) -   *)
(* cell parsing, template extraction, derived fields and file processing;  *)
(* and the AppProvider state with the handlers that store an analysis.     *)
(*                                                                         *)
(* JavaScript numbers are modelled as exact fractions <<n, d>> in lowest   *)
(* terms with d >= 1; the three non-finite doubles are <<0, 0>> (NaN),     *)
(* <<1, 0>> (Infinity) and <<-1, 0>> (-Infinity).  Monetary amounts are    *)
(* integers far below the range where doubles round or overflow.           *)
(***************************************************************************)
EXTENDS Integers, Sequences, FiniteSets, TLC

\* ------------------------------------------------------------------ bounds
\* largest monetary amount entered in a statement field
MaxAmount == 3

\* ----------------------------------------------------------- JS numbers
Abs(x) == IF x < 0 THEN -x ELSE x

RECURSIVE Gcd(_, _)
Gcd(a, b) == IF b = 0 THEN a ELSE Gcd(b, a % b)

\* the fraction n/d in canonical form; d = 0 gives NaN or +-Infinity
Frac(n, d) ==
  IF d = 0 THEN <<(IF n > 0 THEN 1 ELSE IF n < 0 THEN -1 ELSE 0), 0>>
  ELSE LET g == Gcd(Abs(n), Abs(d))
           s == IF d < 0 THEN -1 ELSE 1
       IN <<(s * n) \div g, (s * d) \div g>>

NaN == <<0, 0>>
Num(i) == <<i, 1>>
IsNaN(x) == x = NaN
IsFinite(x) == x[2] # 0

\* a / b of JavaScript: x/0 is +-Infinity, 0/0 is NaN
JsDiv(a, b) ==
  IF IsNaN(a) \/ IsNaN(b) THEN NaN
  ELSE IF ~IsFinite(a) /\ ~IsFinite(b) THEN NaN
  ELSE IF ~IsFinite(b) THEN Num(0)
  ELSE IF ~IsFinite(a) THEN Frac(a[1] * (IF b[1] < 0 THEN -1 ELSE 1), 0)
  ELSE Frac(a[1] * b[2], a[2] * b[1])

JsMul(a, b) ==
  IF IsNaN(a) \/ IsNaN(b) THEN NaN
  ELSE IF ~IsFinite(a) \/ ~IsFinite(b) THEN Frac(a[1] * b[1], 0)
  ELSE Frac(a[1] * b[1], a[2] * b[2])

JsAdd(a, b) ==
  IF IsNaN(a) \/ IsNaN(b) THEN NaN
  ELSE IF ~IsFinite(a) /\ ~IsFinite(b) THEN (IF a = b THEN a ELSE NaN)
  ELSE IF ~IsFinite(a) THEN a
  ELSE IF ~IsFinite(b) THEN b
  ELSE Frac(a[1] * b[2] + b[1] * a[2], a[2] * b[2])

JsSub(a, b) == JsAdd(a, <<-b[1], b[2]>>)

\* a >= b, a <= b, a > b, a < b of JavaScript (false when either is NaN)
Geq(a, b) == ~IsNaN(a) /\ ~IsNaN(b) /\ a[1] * b[2] >= b[1] * a[2]
Leq(a, b) == Geq(b, a)
Gt(a, b) == ~IsNaN(a) /\ ~IsNaN(b) /\ a[1] * b[2] > b[1] * a[2]
Lt(a, b) == Gt(b, a)

\* truthiness of a number: false for 0 and NaN
Truthy(x) == ~IsNaN(x) /\ x # Num(0)

\* Math.round: nearest integer, halves rounded up (argument finite)
MathRound(x) == (2 * x[1] + x[2]) \div (2 * x[2])

\* ------------------------------------------------------------ norm tables
\* decimal literal n/d of the source
Dec(n, d) == Frac(n, d)

MinNorm(mn, opt) == [min |-> mn, optimal |-> opt]
MaxNorm(mx, opt) == [max |-> mx, optimal |-> opt]

BCEAO_NORMS ==
  [ ratio_liquidite_generale   |-> MinNorm(Dec(12, 10), Dec(20, 10)),
    ratio_liquidite_reduite    |-> MinNorm(Dec(10, 10), Dec(15, 10)),
    ratio_liquidite_immediate  |-> MinNorm(Dec(3, 10), Dec(8, 10)),
    ratio_autonomie_financiere |-> MinNorm(Num(20), Num(40)),
    ratio_endettement          |-> MaxNorm(Num(70), Num(50)),
    ratio_couverture_dettes    |-> MinNorm(Num(3), Num(5)),
    roe                        |-> MinNorm(Num(10), Num(20)),
    roa                        |-> MinNorm(Num(5), Num(10)),
    marge_nette                |-> MinNorm(Num(3), Num(8)),
    marge_brute                |-> MinNorm(Num(15), Num(30)),
    rotation_actif             |-> MinNorm(Dec(8, 10), Dec(15, 10)),
    rotation_stocks            |-> MinNorm(Num(4), Num(8)),
    delai_recouvrement         |-> MaxNorm(Num(60), Num(30)),
    ratio_capitaux_permanents  |-> MinNorm(Dec(10, 10), Dec(12, 10)),
    ratio_financement_stable   |-> MinNorm(Dec(10, 10), Dec(13, 10)) ]

SECTORAL_NORMS ==
  [ industrie |->
      [ ratio_liquidite_generale   |-> MinNorm(Dec(12, 10), Dec(18, 10)),
        ratio_autonomie_financiere |-> MinNorm(Num(25), Num(45)),
        roe                        |-> MinNorm(Num(8), Num(15)),
        rotation_actif             |-> MinNorm(Dec(8, 10), Dec(12, 10)) ],
    commerce |->
      [ ratio_liquidite_generale   |-> MinNorm(Dec(10, 10), Dec(15, 10)),
        ratio_autonomie_financiere |-> MinNorm(Num(20), Num(35)),
        roe                        |-> MinNorm(Num(12), Num(20)),
        rotation_actif             |-> MinNorm(Dec(12, 10), Dec(20, 10)) ],
    services |->
      [ ratio_liquidite_generale   |-> MinNorm(Dec(15, 10), Dec(25, 10)),
        ratio_autonomie_financiere |-> MinNorm(Num(30), Num(60)),
        roe                        |-> MinNorm(Num(15), Num(25)),
        rotation_actif             |-> MinNorm(Dec(10, 10), Dec(18, 10)) ],
    agriculture |->
      [ ratio_liquidite_generale   |-> MinNorm(Dec(13, 10), Dec(20, 10)),
        ratio_autonomie_financiere |-> MinNorm(Num(35), Num(55)),
        roe                        |-> MinNorm(Num(10), Num(18)),
        rotation_actif             |-> MinNorm(Dec(6, 10), Dec(10, 10)) ] ]

\* faulty variant: the sector's table replaces the baseline instead of overriding it
EffectiveNormsSectorOnly(sector) ==
  IF sector # "general" /\ sector \in DOMAIN SECTORAL_NORMS
  THEN SECTORAL_NORMS[sector] ELSE BCEAO_NORMS

\* sector !== 'general' && SECTORAL_NORMS[sector]
\*   ? { ...BCEAO_NORMS, ...SECTORAL_NORMS[sector] } : BCEAO_NORMS
EffectiveNorms(sector) ==
  IF sector # "general" /\ sector \in DOMAIN SECTORAL_NORMS
  THEN [r \in DOMAIN BCEAO_NORMS \cup DOMAIN SECTORAL_NORMS[sector] |->
          IF r \in DOMAIN SECTORAL_NORMS[sector]
          THEN SECTORAL_NORMS[sector][r] ELSE BCEAO_NORMS[r]]
  ELSE BCEAO_NORMS

\* ---------------------------------------------------------- calculateRatios
\* the ratio keys in the order calculateRatios assigns them
RatioOrder ==
  << "ratio_liquidite_generale", "ratio_liquidite_immediate",
     "ratio_autonomie_financiere", "ratio_endettement",
     "ratio_couverture_dettes", "roe", "roa", "marge_nette", "marge_brute",
     "rotation_actif", "rotation_stocks", "working_capital",
     "ratio_financement_stable", "marge_ebe", "taux_valeur_ajoutee" >>

\* the fields each ratio's `if` tests for truthiness
RatioGuard(r) ==
  CASE r = "ratio_liquidite_generale"   -> {"total_actif_circulant", "tresorerie_actif", "total_dettes"}
    [] r = "ratio_liquidite_immediate"  -> {"tresorerie_actif", "total_dettes"}
    [] r = "ratio_autonomie_financiere" -> {"capitaux_propres", "total_actif"}
    [] r = "ratio_endettement"          -> {"total_dettes", "total_actif"}
    [] r = "ratio_couverture_dettes"    -> {"dettes_financieres", "excedent_brut_exploitation"}
    [] r = "roe"                        -> {"resultat_net", "capitaux_propres"}
    [] r = "roa"                        -> {"resultat_net", "total_actif"}
    [] r = "marge_nette"                -> {"resultat_net", "chiffre_affaires"}
    [] r = "marge_brute"                -> {"marge_commerciale", "chiffre_affaires"}
    [] r = "rotation_actif"             -> {"chiffre_affaires", "total_actif"}
    [] r = "rotation_stocks"            -> {"chiffre_affaires", "total_actif_circulant"}
    [] r = "working_capital"            -> {"total_actif_circulant", "total_dettes"}
    [] r = "ratio_financement_stable"   -> {"capitaux_propres", "total_actif_immobilise"}
    [] r = "marge_ebe"                  -> {"excedent_brut_exploitation", "chiffre_affaires"}
    [] r = "taux_valeur_ajoutee"        -> {"valeur_ajoutee", "chiffre_affaires"}

\* faulty variant: the guard tests that the key is defined, not that it is truthy
FieldDefined(data, f) == f \in DOMAIN data

\* data[f] of a FinancialData: a missing key reads as undefined (falsy)
FieldTruthy(data, f) == f \in DOMAIN data /\ Truthy(Num(data[f]))

\* Number(data[f]); Number(undefined) is NaN
FieldNumber(data, f) == IF f \in DOMAIN data THEN Num(data[f]) ELSE NaN

\* the expression assigned to ratio r
RatioValue(data, r) ==
  LET V(f) == FieldNumber(data, f)
      Pct(x) == JsMul(x, Num(100))
  IN CASE r = "ratio_liquidite_generale"   ->
            JsDiv(JsAdd(V("total_actif_circulant"), V("tresorerie_actif")), V("total_dettes"))
       [] r = "ratio_liquidite_immediate"  -> JsDiv(V("tresorerie_actif"), V("total_dettes"))
       [] r = "ratio_autonomie_financiere" -> Pct(JsDiv(V("capitaux_propres"), V("total_actif")))
       [] r = "ratio_endettement"          -> Pct(JsDiv(V("total_dettes"), V("total_actif")))
       [] r = "ratio_couverture_dettes"    ->
            JsDiv(V("excedent_brut_exploitation"), V("dettes_financieres"))
       [] r = "roe"                        -> Pct(JsDiv(V("resultat_net"), V("capitaux_propres")))
       [] r = "roa"                        -> Pct(JsDiv(V("resultat_net"), V("total_actif")))
       [] r = "marge_nette"                -> Pct(JsDiv(V("resultat_net"), V("chiffre_affaires")))
       [] r = "marge_brute"                -> Pct(JsDiv(V("marge_commerciale"), V("chiffre_affaires")))
       [] r = "rotation_actif"             -> JsDiv(V("chiffre_affaires"), V("total_actif"))
       [] r = "rotation_stocks"            -> JsDiv(V("chiffre_affaires"), V("total_actif_circulant"))
       [] r = "working_capital"            -> JsSub(V("total_actif_circulant"), V("total_dettes"))
       [] r = "ratio_financement_stable"   ->
            JsDiv(V("capitaux_propres"), V("total_actif_immobilise"))
       [] r = "marge_ebe"                  ->
            Pct(JsDiv(V("excedent_brut_exploitation"), V("chiffre_affaires")))
       [] r = "taux_valeur_ajoutee"        -> Pct(JsDiv(V("valeur_ajoutee"), V("chiffre_affaires")))

RatioNames == {RatioOrder[i] : i \in 1..Len(RatioOrder)}

\* FinancialCalculator.calculateRatios: the object of the ratios whose guard passed
calculateRatios(data) ==
  LET present == {r \in RatioNames : \A f \in RatioGuard(r) : FieldTruthy(data, f)}
  IN [r \in present |-> RatioValue(data, r)]

\* ----------------------------------------------------------------- scoring
\* norm.optimal || fallback
OptimalOr(norm, fallback) ==
  IF "optimal" \in DOMAIN norm /\ Truthy(norm.optimal) THEN norm.optimal ELSE fallback

\* faulty variant: the tolerance bands are those of evaluateCompliance
scoreRatioNarrowBand(value, norm, maxPoints, inverse) ==
  IF inverse /\ "max" \in DOMAIN norm THEN
    IF Leq(value, OptimalOr(norm, JsMul(norm.max, Dec(7, 10)))) THEN Num(maxPoints)
    ELSE IF Leq(value, norm.max) THEN JsMul(Num(maxPoints), Dec(7, 10))
    ELSE IF Leq(value, JsMul(norm.max, Dec(12, 10))) THEN JsMul(Num(maxPoints), Dec(4, 10))
    ELSE Num(0)
  ELSE IF ~inverse /\ "min" \in DOMAIN norm THEN
    IF Geq(value, OptimalOr(norm, JsMul(norm.min, Dec(15, 10)))) THEN Num(maxPoints)
    ELSE IF Geq(value, norm.min) THEN JsMul(Num(maxPoints), Dec(7, 10))
    ELSE IF Geq(value, JsMul(norm.min, Dec(8, 10))) THEN JsMul(Num(maxPoints), Dec(4, 10))
    ELSE Num(0)
  ELSE JsMul(Num(maxPoints), Dec(5, 10))

\* FinancialCalculator.scoreRatio: the points (a fraction) a ratio earns
scoreRatio(value, norm, maxPoints, inverse) ==
  IF inverse /\ "max" \in DOMAIN norm THEN
    IF Leq(value, OptimalOr(norm, JsMul(norm.max, Dec(7, 10)))) THEN Num(maxPoints)
    ELSE IF Leq(value, norm.max) THEN JsMul(Num(maxPoints), Dec(7, 10))
    ELSE IF Leq(value, JsMul(norm.max, Dec(13, 10))) THEN JsMul(Num(maxPoints), Dec(4, 10))
    ELSE Num(0)
  ELSE IF ~inverse /\ "min" \in DOMAIN norm THEN
    IF Geq(value, OptimalOr(norm, JsMul(norm.min, Dec(15, 10)))) THEN Num(maxPoints)
    ELSE IF Geq(value, norm.min) THEN JsMul(Num(maxPoints), Dec(7, 10))
    ELSE IF Geq(value, JsMul(norm.min, Dec(7, 10))) THEN JsMul(Num(maxPoints), Dec(4, 10))
    ELSE Num(0)
  ELSE JsMul(Num(maxPoints), Dec(5, 10))

\* the ratios of each category with the points each can earn
liquidityRatios ==
  << [ratio |-> "ratio_liquidite_generale", points |-> 20, inverse |-> FALSE],
     [ratio |-> "ratio_liquidite_immediate", points |-> 20, inverse |-> FALSE] >>
leverageRatios ==
  << [ratio |-> "ratio_autonomie_financiere", points |-> 20, inverse |-> FALSE],
     [ratio |-> "ratio_endettement", points |-> 20, inverse |-> TRUE] >>
profitabilityRatios ==
  << [ratio |-> "roe", points |-> 10, inverse |-> FALSE],
     [ratio |-> "roa", points |-> 10, inverse |-> FALSE],
     [ratio |-> "marge_nette", points |-> 10, inverse |-> FALSE] >>
efficiencyRatios ==
  << [ratio |-> "rotation_actif", points |-> 15, inverse |-> FALSE] >>

\* faulty variant: an absent ratio earns the default half of its points
RECURSIVE CategoryScoreAbsentHalf(_, _, _, _)
CategoryScoreAbsentHalf(list, i, ratios, norms) ==
  IF i > Len(list) THEN Num(0)
  ELSE LET e == list[i]
           pts == IF e.ratio \in DOMAIN ratios /\ e.ratio \in DOMAIN norms
                  THEN scoreRatio(ratios[e.ratio], norms[e.ratio], e.points, e.inverse)
                  ELSE JsMul(Num(e.points), Dec(5, 10))
       IN JsAdd(pts, CategoryScoreAbsentHalf(list, i + 1, ratios, norms))

\* the forEach of one category: the sum of scoreRatio over the ratios that are
\* present and have a norm
RECURSIVE CategoryScore(_, _, _, _)
CategoryScore(list, i, ratios, norms) ==
  IF i > Len(list) THEN Num(0)
  ELSE LET e == list[i]
           pts == IF e.ratio \in DOMAIN ratios /\ e.ratio \in DOMAIN norms
                  THEN scoreRatio(ratios[e.ratio], norms[e.ratio], e.points, e.inverse)
                  ELSE Num(0)
       IN JsAdd(pts, CategoryScore(list, i + 1, ratios, norms))

trendScore == 12

\* faulty variant: the 'medium' band starts at 50
RiskLevelShifted(overall) ==
  IF overall >= 80 THEN "low"
  ELSE IF overall >= 50 THEN "medium"
  ELSE IF overall >= 40 THEN "high"
  ELSE "critical"

\* the four if/else-if branches that set riskLevel
RiskLevel(overall) ==
  IF overall >= 80 THEN "low"
  ELSE IF overall >= 60 THEN "medium"
  ELSE IF overall >= 40 THEN "high"
  ELSE "critical"

\* faulty variant: the scaled score is truncated instead of rounded
ScaledTruncated(points, pool) ==
  LET x == JsMul(JsDiv(points, Num(pool)), Num(100)) IN x[1] \div x[2]

\* Math.round((points / pool) * 100)
Scaled(points, pool) == MathRound(JsMul(JsDiv(points, Num(pool)), Num(100)))

\* FinancialCalculator.calculateScore
calculateScore(ratios, sector) ==
  LET norms == EffectiveNorms(sector)
      liquidityScore == CategoryScore(liquidityRatios, 1, ratios, norms)
      leverageScore == CategoryScore(leverageRatios, 1, ratios, norms)
      profitabilityScore == CategoryScore(profitabilityRatios, 1, ratios, norms)
      efficiencyScore == CategoryScore(efficiencyRatios, 1, ratios, norms)
      totalScore == JsAdd(JsAdd(JsAdd(JsAdd(liquidityScore, leverageScore),
                          profitabilityScore), efficiencyScore), Num(trendScore))
      overall == Scaled(totalScore, 140)
  IN [ overall |-> overall,
       profitability |-> Scaled(profitabilityScore, 30),
       liquidity |-> Scaled(liquidityScore, 40),
       leverage |-> Scaled(leverageScore, 40),
       efficiency |-> Scaled(efficiencyScore, 15),
       trend |-> Scaled(Num(trendScore), 15),
       risk_level |-> RiskLevel(overall) ]

\* -------------------------------------------------------------- compliance
\* what one branch of evaluateCompliance leaves in status, isCompliant and
\* recommendation (isCompliant starts true, status 'good', no recommendation)
Verdict(status, isCompliant, hasRecommendation) ==
  [status |-> status, isCompliant |-> isCompliant,
   hasRecommendation |-> hasRecommendation]

\* faulty variant: a value equal to min falls out of 'good'
MinStatusExclusive(value, norm) ==
  IF Geq(value, OptimalOr(norm, JsMul(norm.min, Dec(15, 10))))
    THEN Verdict("excellent", TRUE, FALSE)
  ELSE IF Gt(value, norm.min) THEN Verdict("good", TRUE, FALSE)
  ELSE IF Geq(value, JsMul(norm.min, Dec(8, 10))) THEN Verdict("acceptable", TRUE, TRUE)
  ELSE IF Geq(value, JsMul(norm.min, Dec(6, 10))) THEN Verdict("poor", FALSE, TRUE)
  ELSE Verdict("critical", FALSE, TRUE)

\* the branch for a minimum threshold (higher is better)
MinStatus(value, norm) ==
  IF Geq(value, OptimalOr(norm, JsMul(norm.min, Dec(15, 10))))
    THEN Verdict("excellent", TRUE, FALSE)
  ELSE IF Geq(value, norm.min) THEN Verdict("good", TRUE, FALSE)
  ELSE IF Geq(value, JsMul(norm.min, Dec(8, 10))) THEN Verdict("acceptable", TRUE, TRUE)
  ELSE IF Geq(value, JsMul(norm.min, Dec(6, 10))) THEN Verdict("poor", FALSE, TRUE)
  ELSE Verdict("critical", FALSE, TRUE)

\* faulty variant: the 'acceptable' band reaches max * 1.3, the tolerance of scoreRatio
MaxStatusWideBand(value, norm) ==
  IF Leq(value, OptimalOr(norm, JsMul(norm.max, Dec(7, 10))))
    THEN Verdict("excellent", TRUE, FALSE)
  ELSE IF Leq(value, norm.max) THEN Verdict("good", TRUE, FALSE)
  ELSE IF Leq(value, JsMul(norm.max, Dec(13, 10))) THEN Verdict("acceptable", TRUE, TRUE)
  ELSE IF Leq(value, JsMul(norm.max, Dec(15, 10))) THEN Verdict("poor", FALSE, TRUE)
  ELSE Verdict("critical", FALSE, TRUE)

\* the branch for a maximum threshold (lower is better)
MaxStatus(value, norm) ==
  IF Leq(value, OptimalOr(norm, JsMul(norm.max, Dec(7, 10))))
    THEN Verdict("excellent", TRUE, FALSE)
  ELSE IF Leq(value, norm.max) THEN Verdict("good", TRUE, FALSE)
  ELSE IF Leq(value, JsMul(norm.max, Dec(12, 10))) THEN Verdict("acceptable", TRUE, TRUE)
  ELSE IF Leq(value, JsMul(norm.max, Dec(15, 10))) THEN Verdict("poor", FALSE, TRUE)
  ELSE Verdict("critical", FALSE, TRUE)

\* faulty variant: a minimum threshold is judged by the maximum-threshold branch
evaluateComplianceSwapped(ratioName, value, norm) ==
  LET hasMin == "min" \in DOMAIN norm
      hasMax == "max" \in DOMAIN norm
      v == IF hasMin /\ ~hasMax THEN MaxStatus(value, [max |-> norm.min])
           ELSE IF hasMax /\ ~hasMin THEN MaxStatus(value, norm)
           ELSE Verdict("good", TRUE, FALSE)
  IN [ ratioName |-> ratioName, value |-> value, norm |-> norm,
       isCompliant |-> v.isCompliant, status |-> v.status,
       hasRecommendation |-> v.hasRecommendation ]

\* FinancialCalculator.evaluateCompliance
evaluateCompliance(ratioName, value, norm) ==
  LET hasMin == "min" \in DOMAIN norm
      hasMax == "max" \in DOMAIN norm
      v == IF hasMin /\ ~hasMax THEN MinStatus(value, norm)
           ELSE IF hasMax /\ ~hasMin THEN MaxStatus(value, norm)
           ELSE Verdict("good", TRUE, FALSE)
  IN [ ratioName |-> ratioName, value |-> value, norm |-> norm,
       isCompliant |-> v.isCompliant, status |-> v.status,
       hasRecommendation |-> v.hasRecommendation ]

priorityOrder ==
  [critical |-> 0, poor |-> 1, acceptable |-> 2, good |-> 3, excellent |-> 4]

\* Array.prototype.sort with the priorityOrder comparator: a stable sort,
\* modelled as insertion of each element after the elements not above it
RECURSIVE InsertByStatus(_, _)
InsertByStatus(sorted, x) ==
  IF sorted = <<>> THEN <<x>>
  ELSE LET last == sorted[Len(sorted)]
       IN IF priorityOrder[last.status] - priorityOrder[x.status] <= 0
          THEN Append(sorted, x)
          ELSE Append(InsertByStatus(SubSeq(sorted, 1, Len(sorted) - 1), x), last)

\* faulty variant: the list is returned in the order the ratios were evaluated
SortByStatusUnsorted(list, n) == list

RECURSIVE SortByStatus(_, _)
SortByStatus(list, n) ==
  IF n = 0 THEN <<>> ELSE InsertByStatus(SortByStatus(list, n - 1), list[n])

\* Object.entries(ratios).forEach: one result per ratio that has a norm, in
\* the order the ratios were assigned
RECURSIVE ComplianceEntries(_, _, _)
ComplianceEntries(i, ratios, norms) ==
  IF i > Len(RatioOrder) THEN <<>>
  ELSE LET r == RatioOrder[i]
           rest == ComplianceEntries(i + 1, ratios, norms)
       IN IF r \in DOMAIN ratios /\ r \in DOMAIN norms
          THEN <<evaluateCompliance(r, ratios[r], norms[r])>> \o rest
          ELSE rest

\* FinancialCalculator.checkBceaoCompliance
checkBceaoCompliance(ratios, sector) ==
  LET compliance == ComplianceEntries(1, ratios, EffectiveNorms(sector))
  IN SortByStatus(compliance, Len(compliance))

\* ------------------------------------------------- insights, recommendations
\* the relative year keys and their UTF-16 code units ('N' 78, '-' 45, '0' 48)
YearKeys == <<"N", "N-1", "N-2">>
KeyUnits == [k \in {YearKeys[i] : i \in 1..Len(YearKeys)} |->
               IF k = "N" THEN <<78>>
               ELSE IF k = "N-1" THEN <<78, 45, 49>>
               ELSE <<78, 45, 50>>]

\* a < b in the order of Array.prototype.sort() without a comparator:
\* by UTF-16 code units, a proper prefix first
RECURSIVE UnitsLess(_, _, _)
UnitsLess(a, b, i) ==
  IF i > Len(a) THEN i <= Len(b)
  ELSE IF i > Len(b) THEN FALSE
  ELSE IF a[i] # b[i] THEN a[i] < b[i]
  ELSE UnitsLess(a, b, i + 1)

KeyLess(a, b) == UnitsLess(KeyUnits[a], KeyUnits[b], 1)

\* Object.keys(multiyearData).sort()
RECURSIVE SortedKeys(_)
SortedKeys(keys) ==
  IF keys = {} THEN <<>>
  ELSE LET last == CHOOSE k \in keys : \A o \in keys \ {k} : KeyLess(o, k)
       IN Append(SortedKeys(keys \ {last}), last)

\* ratios.r && ... : a ratio that is absent, 0 or NaN is falsy
RatioTruthy(ratios, r) == r \in DOMAIN ratios /\ Truthy(ratios[r])

Insight(category, type, title, impact) ==
  [category |-> category, type |-> type, title |-> title, impact |-> impact]

\* the 'Profitability insights' block
ProfitabilityInsights(latestRatios, previousRatios) ==
  IF RatioTruthy(latestRatios, "roe") /\ RatioTruthy(previousRatios, "roe")
  THEN LET roeChange == JsSub(latestRatios["roe"], previousRatios["roe"])
       IN IF Gt(roeChange, Num(2))
          THEN <<Insight("profitability", "positive",
                         "Amelioration de la rentabilite", "high")>>
          ELSE IF Lt(roeChange, Num(-2))
          THEN <<Insight("profitability", "negative",
                         "Deterioration de la rentabilite", "high")>>
          ELSE <<>>
  ELSE <<>>

\* the 'Liquidity insights' block
LiquidityInsights(latestRatios) ==
  IF RatioTruthy(latestRatios, "ratio_liquidite_generale")
  THEN IF Lt(latestRatios["ratio_liquidite_generale"], Dec(12, 10))
       THEN <<Insight("liquidity", "warning", "Liquidite insuffisante", "high")>>
       ELSE IF Gt(latestRatios["ratio_liquidite_generale"], Dec(25, 10))
       THEN <<Insight("liquidity", "neutral", "Liquidite excedentaire", "medium")>>
       ELSE <<>>
  ELSE <<>>

\* the 'Leverage insights' block
LeverageInsights(latestRatios) ==
  IF RatioTruthy(latestRatios, "ratio_autonomie_financiere")
     /\ Lt(latestRatios["ratio_autonomie_financiere"], Num(20))
  THEN <<Insight("leverage", "warning", "Autonomie financiere faible", "high")>>
  ELSE <<>>

\* faulty variant: only the year-on-year comparison waits for a second year
generateInsightsUngated(multiyear, allRatios, sector) ==
  LET years == SortedKeys(DOMAIN multiyear)
  IN IF Len(years) < 1 THEN <<>>
     ELSE
       LET latestRatios == allRatios[years[Len(years)]]
       IN (IF Len(years) < 2 THEN <<>>
           ELSE ProfitabilityInsights(latestRatios, allRatios[years[Len(years) - 1]]))
            \o LiquidityInsights(latestRatios)
            \o LeverageInsights(latestRatios)

\* FinancialCalculator.generateInsights
generateInsights(multiyear, allRatios, sector) ==
  LET years == SortedKeys(DOMAIN multiyear)
  IN IF Len(years) < 2 THEN <<>>
     ELSE
       LET latestKey == years[Len(years)]
           previousKey == years[Len(years) - 1]
           latestRatios == allRatios[latestKey]
           previousRatios == allRatios[previousKey]
       IN ProfitabilityInsights(latestRatios, previousRatios)
            \o LiquidityInsights(latestRatios)
            \o LeverageInsights(latestRatios)

Recommendation(priority, category, timeframe) ==
  [priority |-> priority, category |-> category, timeframe |-> timeframe]

\* faulty variant: a warning among the insights adds a recommendation
generateRecommendationsFromInsights(ratios, insights, sector) ==
  (IF RatioTruthy(ratios, "ratio_liquidite_generale")
      /\ Lt(ratios["ratio_liquidite_generale"], Dec(12, 10))
   THEN <<Recommendation("high", "Liquidite", "immediate")>> ELSE <<>>)
  \o (IF RatioTruthy(ratios, "ratio_autonomie_financiere")
         /\ Lt(ratios["ratio_autonomie_financiere"], Num(20))
      THEN <<Recommendation("high", "Structure Financiere", "medium-term")>> ELSE <<>>)
  \o (IF insights # <<>> \/ (RatioTruthy(ratios, "roe") /\ Lt(ratios["roe"], Num(10)))
      THEN <<Recommendation("medium", "Rentabilite", "medium-term")>> ELSE <<>>)
  \o (IF RatioTruthy(ratios, "rotation_actif") /\ Lt(ratios["rotation_actif"], Dec(8, 10))
      THEN <<Recommendation("medium", "Efficacite Operationnelle", "long-term")>> ELSE <<>>)
  \o <<Recommendation("low", "Surveillance Continue", "short-term")>>

\* FinancialCalculator.generateRecommendations
generateRecommendations(ratios, insights, sector) ==
  (IF RatioTruthy(ratios, "ratio_liquidite_generale")
      /\ Lt(ratios["ratio_liquidite_generale"], Dec(12, 10))
   THEN <<Recommendation("high", "Liquidite", "immediate")>> ELSE <<>>)
  \o (IF RatioTruthy(ratios, "ratio_autonomie_financiere")
         /\ Lt(ratios["ratio_autonomie_financiere"], Num(20))
      THEN <<Recommendation("high", "Structure Financiere", "medium-term")>> ELSE <<>>)
  \o (IF RatioTruthy(ratios, "roe") /\ Lt(ratios["roe"], Num(10))
      THEN <<Recommendation("medium", "Rentabilite", "medium-term")>> ELSE <<>>)
  \o (IF RatioTruthy(ratios, "rotation_actif") /\ Lt(ratios["rotation_actif"], Dec(8, 10))
      THEN <<Recommendation("medium", "Efficacite Operationnelle", "long-term")>> ELSE <<>>)
  \o <<Recommendation("low", "Surveillance Continue", "short-term")>>

\* ---------------------------------------------------------- calculateAnalysis
NoKey == "undefined"

\* FinancialCalculator.getLatestYearKey: the key of the entry that the
\* descending sort by year puts first; years[0] of an empty list is undefined
\* and reading its key throws a TypeError
getLatestYearKey(multiyear) ==
  IF DOMAIN multiyear = {} THEN NoKey
  ELSE CHOOSE k \in DOMAIN multiyear :
         \A o \in DOMAIN multiyear : multiyear[o].year <= multiyear[k].year

NoRatios == [r \in {} |-> NaN]
NoScore == [overall |-> -1, profitability |-> -1, liquidity |-> -1, leverage |-> -1,
            efficiency |-> -1, trend |-> -1, risk_level |-> "none"]

\* the outcome of a call: the returned CalculationResult, or the error thrown
Thrown(error) ==
  [outcome |-> error, ratios |-> NoRatios, score |-> NoScore,
   insights |-> <<>>, recommendations |-> <<>>]

\* FinancialCalculator.calculateAnalysis
calculateAnalysis(multiyear, sector) ==
  LET latestYearKey == getLatestYearKey(multiyear)
  IN IF latestYearKey = NoKey THEN Thrown("TypeError")
     ELSE IF latestYearKey \notin DOMAIN multiyear
     THEN Thrown("No financial data available for analysis")
     ELSE
       LET allRatios == [k \in DOMAIN multiyear |-> calculateRatios(multiyear[k].data)]
           latestRatios == allRatios[latestYearKey]
           insights == generateInsights(multiyear, allRatios, sector)
       IN [ outcome |-> "ok",
            ratios |-> latestRatios,
            score |-> calculateScore(latestRatios, sector),
            insights |-> insights,
            recommendations |-> generateRecommendations(latestRatios, insights, sector) ]

\* ------------------------------------------------------------------ inputs
\* the statement fields calculateRatios reads
RatioFields == UNION {RatioGuard(r) : r \in RatioNames}

\* the fields behind the eight ratios calculateScore weighs
ScoreFields ==
  UNION {RatioGuard(e.ratio) :
           e \in {liquidityRatios[i] : i \in 1..Len(liquidityRatios)}
              \cup {leverageRatios[i] : i \in 1..Len(leverageRatios)}
              \cup {profitabilityRatios[i] : i \in 1..Len(profitabilityRatios)}
              \cup {efficiencyRatios[i] : i \in 1..Len(efficiencyRatios)}}

\* the sector selector offers sectors with and without a norm table
Sectors == {"general", "industrie", "commerce", "services", "agriculture", "transport"}

referenceYear == 2024

\* the year key of the year `age` years before the reference year
KeyAge(k) == CHOOSE a \in 0..(Len(YearKeys) - 1) : YearKeys[a + 1] = k

YearRecord(k, data) == [year |-> referenceYear - KeyAge(k), data |-> data]

\* the largest number of fields one ratio reads
MaxGuard == CHOOSE n \in 0..Cardinality(RatioFields) :
  /\ \A r \in RatioNames : Cardinality(RatioGuard(r)) <= n
  /\ \E r \in RatioNames : Cardinality(RatioGuard(r)) = n

\* a statement with at most as many fields filled as one ratio reads, each
\* negative, zero or positive
SparseData ==
  UNION {[S -> {-1, 0, 1}] :
           S \in {T \in SUBSET RatioFields : Cardinality(T) <= MaxGuard}}

BalanceFields == ScoreFields \ {"resultat_net", "chiffre_affaires"}

\* a statement with every scored field filled with a positive amount: any
\* amount for the balance-sheet fields, the smallest or the largest for the
\* net result and the revenue
FilledData ==
  {[f \in ScoreFields |-> IF f \in BalanceFields THEN b[f] ELSE i[f]] :
     b \in [BalanceFields -> 1..MaxAmount],
     i \in [ScoreFields \ BalanceFields -> {1, MaxAmount}]}

\* a year's equity and net result
ResultData == [{"resultat_net", "capitaux_propres"} -> 1..MaxAmount]

\* the MultiyearData holding, for each key of keys, a year of ResultData
MultiyearInputs ==
  UNION {[keys -> ResultData] : keys \in SUBSET {YearKeys[i] : i \in 1..Len(YearKeys)}}

\* --------------------------------------------- ExcelProcessor: cell values
\* A cell value as the workbook reader hands it over: null, undefined, a
\* number, a string (a sequence of one-character strings) or a boolean.
JsValue(type, num, str) == [type |-> type, num |-> num, str |-> str]
JsNull == JsValue("null", NaN, <<>>)
JsUndefined == JsValue("undefined", NaN, <<>>)
JsNumber(x) == JsValue("number", x, <<>>)
JsString(s) == JsValue("string", NaN, s)
JsBoolean == JsValue("boolean", NaN, <<>>)

Digits == <<"0", "1", "2", "3", "4", "5", "6", "7", "8", "9">>
IsDigit(c) == \E i \in 1..Len(Digits) : Digits[i] = c
DigitValue(c) == (CHOOSE i \in 1..Len(Digits) : Digits[i] = c) - 1

\* the characters of /[€$£¥₹₽]/ and of /\s/ that the inputs use
CurrencySymbols == {"€", "$", "£"}
WhiteSpace == {" "}

\* s.replace(/[set]/g, '')
RECURSIVE Remove(_, _)
Remove(s, set) ==
  IF s = <<>> THEN <<>>
  ELSE IF Head(s) \in set THEN Remove(Tail(s), set)
  ELSE <<Head(s)>> \o Remove(Tail(s), set)

\* s.replace(/,/g, '.')
CommaToDot(s) == [i \in 1..Len(s) |-> IF s[i] = "," THEN "." ELSE s[i]]

\* s.replace(/[^\d.-]/g, '')
RECURSIVE KeepNumeric(_)
KeepNumeric(s) ==
  IF s = <<>> THEN <<>>
  ELSE IF IsDigit(Head(s)) \/ Head(s) \in {".", "-"}
       THEN <<Head(s)>> \o KeepNumeric(Tail(s))
       ELSE KeepNumeric(Tail(s))

\* the number of digits of s from position i on
RECURSIVE DigitRun(_, _)
DigitRun(s, i) ==
  IF i <= Len(s) /\ IsDigit(s[i]) THEN 1 + DigitRun(s, i + 1) ELSE 0

\* the value of the n digits of s from position i on, after the value acc
RECURSIVE DigitsValue(_, _, _, _)
DigitsValue(s, i, n, acc) ==
  IF n = 0 THEN acc ELSE DigitsValue(s, i + 1, n - 1, 10 * acc + DigitValue(s[i]))

RECURSIVE Pow10(_)
Pow10(n) == IF n = 0 THEN 1 ELSE 10 * Pow10(n - 1)

\* parseFloat on a string of digits, '.', '-' and '+': the longest prefix
\* that is a decimal literal (sign, digits, '.', digits), NaN when that
\* prefix has no digit
parseFloat(s) ==
  LET signed == Len(s) >= 1 /\ s[1] \in {"-", "+"}
      start == IF signed THEN 2 ELSE 1
      intLen == DigitRun(s, start)
      dot == start + intLen
      hasDot == dot <= Len(s) /\ s[dot] = "."
      fracLen == IF hasDot THEN DigitRun(s, dot + 1) ELSE 0
      magnitude == Frac(DigitsValue(s, dot + 1, fracLen, DigitsValue(s, start, intLen, 0)),
                        Pow10(fracLen))
  IN IF intLen + fracLen = 0 THEN NaN
     ELSE IF signed /\ s[1] = "-" THEN <<-magnitude[1], magnitude[2]>>
     ELSE magnitude

\* ExcelProcessor.parseNumericValue
parseNumericValue(value) ==
  IF value.type \in {"null", "undefined"} \/ value = JsString(<<>>) THEN Num(0)
  ELSE IF value.type = "number" THEN value.num
  ELSE IF value.type = "string"
  THEN LET cleaned == KeepNumeric(CommaToDot(Remove(Remove(value.str, CurrencySymbols),
                                                    WhiteSpace)))
           parsed == parseFloat(cleaned)
       IN IF IsNaN(parsed) THEN Num(0) ELSE parsed
  ELSE Num(0)

\* ------------------------------------------ ExcelProcessor: the cell maps
Range(s) == {s[i] : i \in 1..Len(s)}

CellMap(field, cell_n, cell_n1) ==
  [field |-> field, cell_n |-> cell_n, cell_n1 |-> cell_n1]

\* The entries of the four cell maps that calculateDerivedFields, the
\* significance check and calculateRatios read, in the order of the source.
BILAN_ACTIF_MAPPINGS ==
  << CellMap("total_actif_circulant", "E28", "F28"),
     CellMap("tresorerie_actif", "E33", "F33"),
     CellMap("total_actif", "E35", "F35") >>

BILAN_PASSIF_MAPPINGS ==
  << CellMap("resultat_exercice", "I12", "J12"),
     CellMap("subventions_investissement", "I13", "J13"),
     CellMap("capitaux_propres", "I15", "J15"),
     CellMap("total_dettes", "I28", "J28"),
     CellMap("tresorerie_passif", "I33", "J33") >>

CR_MAPPINGS ==
  << CellMap("marge_commerciale", "E8", "F8"),
     CellMap("chiffre_affaires", "E12", "F12"),
     CellMap("production_stockee", "E13", "F13"),
     CellMap("production_immobilisee", "E14", "F14"),
     CellMap("subvention_exploitation", "E15", "F15"),
     CellMap("autres_produits", "E16", "F16"),
     CellMap("transferts_charges", "E17", "F17"),
     CellMap("resultat_exploitation", "E31", "F31"),
     CellMap("resultat_net", "E46", "F46") >>

TFT_MAPPINGS ==
  << CellMap("tresorerie_debut_periode", "E3", "F3"),
     CellMap("subventions_investissement", "E21", "F21"),
     CellMap("variation_tresorerie", "E31", "F31") >>

\* the sheets in processing order, each with the cell map read from it
sheetsToProcess ==
  << [name |-> "Bilan", mappings |-> BILAN_ACTIF_MAPPINGS \o BILAN_PASSIF_MAPPINGS],
     [name |-> "CR", mappings |-> CR_MAPPINGS],
     [name |-> "TFT", mappings |-> TFT_MAPPINGS] >>

\* new Date().getFullYear()
currentYear == referenceYear

\* an absent yearConfig argument
NoYearConfig == [defined |-> FALSE, primaryYear |-> 0, startYear |-> 0, endYear |-> 0]
YearConfig(primaryYear, startYear, endYear) ==
  [defined |-> TRUE, primaryYear |-> primaryYear, startYear |-> startYear,
   endYear |-> endYear]

\* ExcelProcessor.getCellValue: null for a missing cell and for a cell whose
\* value is undefined, null or the empty string
getCellValue(worksheet, cellAddress) ==
  IF cellAddress \notin DOMAIN worksheet THEN JsNull
  ELSE LET value == worksheet[cellAddress]
       IN IF value.type \in {"undefined", "null"} \/ value = JsString(<<>>)
          THEN JsNull
          ELSE value

\* faulty variant: every key is given the year of the reference year
getYearFromKeyFlat(yearKey, refYear) ==
  IF refYear # 0 THEN refYear ELSE currentYear

\* ExcelProcessor.getYearFromKey for the keys 'N', 'N-1' and 'N-2'
getYearFromKey(yearKey, refYear) ==
  LET current == IF refYear # 0 THEN refYear ELSE currentYear
  IN current - KeyAge(yearKey)

\* data[field] = value
Put(data, field, value) ==
  [f \in DOMAIN data \cup {field} |-> IF f = field THEN value ELSE data[f]]

NoData == [f \in {} |-> NaN]
NoYears == [k \in {} |-> [year |-> 0, data |-> NoData]]

\* the 'Extract for year N' / 'Extract for year N-1' block for one cell
ExtractCell(multiyear, yearKey, fieldKey, value, config, refYear) ==
  IF value = JsNull THEN multiyear
  ELSE
    LET actualYear == getYearFromKey(yearKey, refYear)
    IN IF ~config.defined
          \/ (actualYear >= config.startYear /\ actualYear <= config.endYear)
       THEN LET created == IF yearKey \in DOMAIN multiyear THEN multiyear[yearKey]
                           ELSE [year |-> actualYear, data |-> NoData]
                filled == [created EXCEPT
                             !.data = Put(@, fieldKey, parseNumericValue(value))]
            IN Put(multiyear, yearKey, filled)
       ELSE multiyear

\* Object.entries(mappings).forEach from entry i on
RECURSIVE ExtractFields(_, _, _, _, _, _)
ExtractFields(mappings, i, worksheet, multiyear, config, refYear) ==
  IF i > Len(mappings) THEN multiyear
  ELSE
    LET fieldConfig == mappings[i]
        withN == ExtractCell(multiyear, "N", fieldConfig.field,
                             getCellValue(worksheet, fieldConfig.cell_n), config, refYear)
        withN1 == ExtractCell(withN, "N-1", fieldConfig.field,
                              getCellValue(worksheet, fieldConfig.cell_n1), config, refYear)
    IN ExtractFields(mappings, i + 1, worksheet, withN1, config, refYear)

Warning(text, subject) == [text |-> text, subject |-> subject]
SheetNotFound(name) == Warning("Feuille non trouvée dans le fichier Excel", name)

\* sheetsToProcess.forEach from sheet i on; result is the data and warnings
RECURSIVE ExtractSheets(_, _, _, _, _)
ExtractSheets(i, book, result, config, refYear) ==
  IF i > Len(sheetsToProcess) THEN result
  ELSE
    LET name == sheetsToProcess[i].name
    IN IF name \notin DOMAIN book.Sheets
       THEN ExtractSheets(i + 1, book,
              [result EXCEPT !.warnings = Append(@, SheetNotFound(name))],
              config, refYear)
       ELSE ExtractSheets(i + 1, book,
              [result EXCEPT !.data = ExtractFields(sheetsToProcess[i].mappings, 1,
                                                   book.Sheets[name], @, config, refYear)],
              config, refYear)
\* data.f in a condition: the field is present with a truthy number
DataTruthy(data, f) == f \in DOMAIN data /\ Truthy(data[f])

\* the components summed into total_produits_exploitation, in source order
revenueComponents ==
  << "marge_commerciale", "chiffre_affaires", "production_stockee",
     "production_immobilisee", "subvention_exploitation", "autres_produits",
     "transferts_charges" >>

\* totalProduitsExploitation after the components from i on are added
RECURSIVE SumComponents(_, _, _)
SumComponents(data, i, total) ==
  IF i > Len(revenueComponents) THEN total
  ELSE SumComponents(data, i + 1,
         IF DataTruthy(data, revenueComponents[i])
         THEN JsAdd(total, data[revenueComponents[i]])
         ELSE total)

\* faulty variant: the total is added to the one already stored
DeriveRevenueAccumulating(data) ==
  LET stored == IF "total_produits_exploitation" \in DOMAIN data
                THEN data["total_produits_exploitation"] ELSE Num(0)
      totalProduitsExploitation == SumComponents(data, 1, stored)
  IN IF Gt(totalProduitsExploitation, Num(0))
     THEN Put(data, "total_produits_exploitation", totalProduitsExploitation)
     ELSE data

\* the total_produits_exploitation step of calculateDerivedFields
DeriveRevenue(data) ==
  LET totalProduitsExploitation == SumComponents(data, 1, Num(0))
  IN IF Gt(totalProduitsExploitation, Num(0))
     THEN Put(data, "total_produits_exploitation", totalProduitsExploitation)
     ELSE IF DataTruthy(data, "chiffre_affaires")
     THEN Put(data, "total_produits_exploitation", data["chiffre_affaires"])
     ELSE data

\* the total_charges_exploitation step
DeriveCharges(data) ==
  IF DataTruthy(data, "total_produits_exploitation")
     /\ "resultat_exploitation" \in DOMAIN data
  THEN Put(data, "total_charges_exploitation",
           JsSub(data["total_produits_exploitation"], data["resultat_exploitation"]))
  ELSE data

\* the working_capital step
DeriveWorkingCapital(data) ==
  IF DataTruthy(data, "total_actif_circulant") /\ DataTruthy(data, "total_dettes")
  THEN Put(data, "working_capital",
           JsSub(data["total_actif_circulant"], data["total_dettes"]))
  ELSE data

\* the bfr step
DeriveBfr(data) ==
  IF ~DataTruthy(data, "bfr")
     /\ DataTruthy(data, "total_actif_circulant") /\ DataTruthy(data, "tresorerie_actif")
     /\ DataTruthy(data, "total_dettes") /\ DataTruthy(data, "tresorerie_passif")
  THEN Put(data, "bfr",
           JsSub(JsSub(data["total_actif_circulant"], data["tresorerie_actif"]),
                 JsSub(data["total_dettes"], data["tresorerie_passif"])))
  ELSE data

\* the resultat_exercice -> resultat_net step
DeriveNetResult(data) ==
  IF DataTruthy(data, "resultat_exercice") /\ ~DataTruthy(data, "resultat_net")
  THEN Put(data, "resultat_net", data["resultat_exercice"])
  ELSE data

\* ExcelProcessor.calculateDerivedFields
calculateDerivedFields(multiyear) ==
  [yearKey \in DOMAIN multiyear |->
     [multiyear[yearKey] EXCEPT
        !.data = DeriveNetResult(DeriveBfr(DeriveWorkingCapital(DeriveCharges(
                   DeriveRevenue(@)))))]]

significantFields == {"chiffre_affaires", "total_actif", "capitaux_propres", "resultat_net"}

AbsNumber(x) == IF x[1] < 0 THEN <<-x[1], x[2]>> ELSE x

\* the template check: some year has a significant field that is not zero
hasRealData(multiyear) ==
  \E yearKey \in DOMAIN multiyear : \E field \in significantFields :
    /\ DataTruthy(multiyear[yearKey].data, field)
    /\ Gt(AbsNumber(multiyear[yearKey].data[field]), Num(0))

EmptyTemplate == Warning("Les données extraites semblent être un modèle vide", "")
NoDataForYear(yearKey) == Warning("Aucune donnée trouvée pour l'année", yearKey)

\* the key the single-year validation expects; a difference other than 0 and
\* 1 gives a key `N-${yearDiff}`, written "N-2" or, outside YearKeys, "N-k"
ExpectedYearKey(yearDiff) ==
  IF yearDiff = 0 THEN "N"
  ELSE IF yearDiff = 1 THEN "N-1"
  ELSE IF yearDiff = 2 THEN "N-2"
  ELSE "N-k"

Missing(multiyear, yearKey) ==
  yearKey \notin DOMAIN multiyear \/ DOMAIN multiyear[yearKey].data = {}

\* the 'Validate that we have data for the expected years' block
YearWarnings(multiyear, config, refYear) ==
  IF config.defined /\ config.startYear = config.endYear
  THEN LET expectedYearKey == ExpectedYearKey(refYear - config.startYear)
       IN IF Missing(multiyear, expectedYearKey)
          THEN <<NoDataForYear(expectedYearKey)>> ELSE <<>>
  ELSE (IF Missing(multiyear, "N-1") THEN <<NoDataForYear("N-1")>> ELSE <<>>)
         \o (IF Missing(multiyear, "N") THEN <<NoDataForYear("N")>> ELSE <<>>)

\* what extractDataFromOhadaTemplate returns once the derived fields are
\* computed: the warnings so far, then the template check and the year check
OhadaResult(multiyear, warnings, config, refYear) ==
  [data |-> multiyear,
   warnings |-> warnings
                  \o (IF hasRealData(multiyear) THEN <<>> ELSE <<EmptyTemplate>>)
                  \o YearWarnings(multiyear, config, refYear)]

\* ExcelProcessor.extractDataFromOhadaTemplate
extractDataFromOhadaTemplate(book, config) ==
  LET refYear == IF config.defined /\ config.primaryYear # 0
                 THEN config.primaryYear ELSE currentYear
      extracted == ExtractSheets(1, book, [data |-> NoYears, warnings |-> <<>>],
                                 config, refYear)
  IN OhadaResult(calculateDerivedFields(extracted.data), extracted.warnings,
                 config, refYear)

\* ------------------------------------ ExcelProcessor: processWorksheet
expectedSheets == {"Bilan", "CR", "TFT"}

\* the year of the first /20\d{2}/ match of a cell text from position i on,
\* 0 without a match
RECURSIVE YearInText(_, _)
YearInText(text, i) ==
  IF i + 3 > Len(text) THEN 0
  ELSE IF text[i] = "2" /\ text[i + 1] = "0" /\ IsDigit(text[i + 2]) /\ IsDigit(text[i + 3])
  THEN 2000 + 10 * DigitValue(text[i + 2]) + DigitValue(text[i + 3])
  ELSE YearInText(text, i + 1)

\* the key of the generic layout for a year; a difference other than 0, 1
\* and 2 gives a key `N-${yearDiff}`, written "N-k"
GenericYearKey(yearDiff) ==
  IF yearDiff = 0 THEN "N"
  ELSE IF yearDiff = 1 THEN "N-1"
  ELSE IF yearDiff = 2 THEN "N-2"
  ELSE "N-k"

\* the columns of the generic layout after the year column
commonMappings ==
  << [index |-> 1, field |-> "total_actif"],
     [index |-> 2, field |-> "capitaux_propres"],
     [index |-> 3, field |-> "chiffre_affaires"],
     [index |-> 4, field |-> "resultat_net"] >>

\* commonMappings.forEach from mapping i on, over a row of cell texts
RECURSIVE RowData(_, _, _)
RowData(row, i, financialData) ==
  IF i > Len(commonMappings) THEN financialData
  ELSE LET mapping == commonMappings[i]
       IN RowData(row, i + 1,
            IF mapping.index + 1 <= Len(row) /\ row[mapping.index + 1] # <<>>
            THEN Put(financialData, mapping.field,
                     parseNumericValue(JsString(row[mapping.index + 1])))
            ELSE financialData)

\* the end of one pass of the row loop: the row is kept when it names a
\* year from 2000 to 2030 and gave at least one field
GenericRow(multiyear, year, financialData) ==
  IF year # 0 /\ year >= 2000 /\ year <= 2030 /\ DOMAIN financialData # {}
  THEN Put(multiyear, GenericYearKey(currentYear - year),
           [year |-> year, data |-> financialData])
  ELSE multiyear

\* the row loop of the generic processing from row i on
RECURSIVE GenericRows(_, _, _)
GenericRows(jsonData, i, multiyear) ==
  IF i > Len(jsonData) THEN multiyear
  ELSE GenericRows(jsonData, i + 1,
         GenericRow(multiyear,
                    IF Len(jsonData[i]) = 0 THEN 0 ELSE YearInText(jsonData[i][1], 1),
                    RowData(jsonData[i], 1, NoData)))

NoValidData == Warning("Aucune donnée financière valide trouvée", "")

\* the outcome of processWorksheet: a result, or a thrown error
Processed(data, warnings) == [thrown |-> FALSE, data |-> data, warnings |-> warnings]
TooFewRows == [thrown |-> TRUE, data |-> NoYears, warnings |-> <<>>]

\* the choice processWorksheet makes between ohadaResult, the result of
\* the template extraction, and multiyear, the result of the row loop
WorksheetResult(book, ohadaResult, multiyear) ==
  LET hasOhadaSheets == \E sheetName \in expectedSheets : sheetName \in Range(book.SheetNames)
  IN IF hasOhadaSheets /\ DOMAIN ohadaResult.data # {}
     THEN Processed(ohadaResult.data, ohadaResult.warnings)
     ELSE IF Len(book.rows) < 2 THEN TooFewRows
     ELSE Processed(multiyear, IF DOMAIN multiyear = {} THEN <<NoValidData>> ELSE <<>>)

\* ExcelProcessor.processWorksheet; book.rows is what sheet_to_json lists for
\* the first sheet
processWorksheet(book, config) ==
  WorksheetResult(book, extractDataFromOhadaTemplate(book, config),
                  GenericRows(book.rows, 1, NoYears))

\* ------------------------------------ ExcelProcessor: processExcelFile
validTypes ==
  {"application/vnd.openxmlformats-officedocument.spreadsheetml.sheet",
   "application/vnd.ms-excel"}

MaxFileSize == 10 * 1024 * 1024

Failure(error, warnings) ==
  [success |-> FALSE, data |-> NoYears, error |-> error, warnings |-> warnings]
Success(data, warnings) ==
  [success |-> TRUE, data |-> data, error |-> "", warnings |-> warnings]

ProcessingError == Warning("Erreur lors du traitement du fichier", "")

\* the end of processExcelFile; worksheet is what processWorksheet returned,
\* or what it threw, which the catch block turns into a warning
FileResult(worksheet) ==
  LET multiyear == IF worksheet.thrown THEN NoYears ELSE worksheet.data
      allWarnings == IF worksheet.thrown THEN <<ProcessingError>> ELSE worksheet.warnings
  IN IF DOMAIN multiyear = {}
     THEN Failure("Aucune donnée financière valide trouvée dans le fichier Excel",
                  allWarnings)
     ELSE Success(multiyear, allWarnings)

\* faulty variant: a result with warnings is reported as a failure
processExcelFileStrict(file, config) ==
  LET worksheet == processWorksheet(file.workbook, config)
  IN IF worksheet.thrown \/ DOMAIN worksheet.data = {} \/ worksheet.warnings # <<>>
     THEN Failure("Aucune donnée financière valide trouvée dans le fichier Excel",
                  worksheet.warnings)
     ELSE Success(worksheet.data, worksheet.warnings)

\* ExcelProcessor.processExcelFile; XLSX.read throws on a file it cannot read
processExcelFile(file, config) ==
  IF file.type \notin validTypes
  THEN Failure("Type de fichier non supporté", <<>>)
  ELSE IF file.size > MaxFileSize
  THEN Failure("Le fichier est trop volumineux", <<>>)
  ELSE IF ~file.readable
  THEN Failure("Erreur lors du traitement du fichier", <<>>)
  ELSE IF Len(file.workbook.SheetNames) = 0
  THEN Failure("Le fichier Excel ne contient aucune feuille de calcul", <<>>)
  ELSE FileResult(processWorksheet(file.workbook, config))

\* ------------------------------------------------ AppProvider: the state
NoDate == -1

NoAnalysisData ==
  [present |-> FALSE, multiyear_data |-> NoYears, score |-> NoScore,
   insights |-> <<>>, recommendations |-> <<>>]

\* an AnalysisData with the data analysed and the results of the analysis
AnalysisData(multiyear, result) ==
  [present |-> TRUE, multiyear_data |-> multiyear, score |-> result.score,
   insights |-> result.insights, recommendations |-> result.recommendations]

initialState ==
  [ analysisData |-> NoAnalysisData,
    analysisId |-> "null",
    currentPage |-> "home",
    isLoading |-> FALSE,
    error |-> "null",
    theme |-> "light",
    language |-> "fr",
    sector |-> "general",
    bceaoNorms |-> "null",
    sectoralNorms |-> "null",
    sessionId |-> "null",
    lastActivity |-> NoDate ]

Action(type, payload) == [type |-> type, payload |-> payload]

\* appReducer; date is the value of new Date()
appReducer(st, action, date) ==
  CASE action.type = "SET_ANALYSIS_DATA" ->
         [st EXCEPT !.analysisData = action.payload, !.error = "null",
                    !.lastActivity = date]
    [] action.type = "SET_ANALYSIS_ID" ->
         [st EXCEPT !.analysisId = action.payload, !.lastActivity = date]
    [] action.type = "SET_CURRENT_PAGE" ->
         [st EXCEPT !.currentPage = action.payload, !.error = "null",
                    !.lastActivity = date]
    [] action.type = "SET_LOADING" -> [st EXCEPT !.isLoading = action.payload]
    [] action.type = "SET_ERROR" ->
         [st EXCEPT !.error = action.payload, !.isLoading = FALSE]
    [] action.type = "SET_THEME" -> [st EXCEPT !.theme = action.payload]
    [] action.type = "SET_LANGUAGE" -> [st EXCEPT !.language = action.payload]
    [] action.type = "SET_SECTOR" -> [st EXCEPT !.sector = action.payload]
    [] action.type = "SET_BCEAO_NORMS" -> [st EXCEPT !.bceaoNorms = action.payload]
    [] action.type = "SET_SECTORAL_NORMS" -> [st EXCEPT !.sectoralNorms = action.payload]
    [] action.type = "SET_SESSION_ID" ->
         [st EXCEPT !.sessionId = action.payload, !.lastActivity = date]
    [] action.type = "UPDATE_ACTIVITY" -> [st EXCEPT !.lastActivity = date]
    [] action.type = "CLEAR_SESSION" ->
         [st EXCEPT !.analysisData = NoAnalysisData, !.analysisId = "null",
                    !.sessionId = "null", !.lastActivity = NoDate, !.error = "null"]
    [] action.type = "RESET_STATE" ->
         [initialState EXCEPT !.theme = st.theme, !.language = st.language,
                              !.sector = st.sector]
    [] OTHER -> st

\* the state after the actions from i on are dispatched in turn
RECURSIVE Dispatch(_, _, _, _)
Dispatch(st, actions, i, date) ==
  IF i > Len(actions) THEN st
  ELSE Dispatch(appReducer(st, actions[i], date), actions, i + 1, date)

\* AppProvider.setSector
setSector(st, newSector, date) ==
  Dispatch(st, <<Action("SET_SECTOR", newSector),
                 Action("SET_SECTORAL_NORMS", "null")>>, 1, date)

\* the dispatches of a handler once calculateAnalysis has returned or thrown:
\* clearError, setLoading(true), then setAnalysisData with the results or
\* setError with what was thrown, and setLoading(false)
ResultDispatches(multiyear, calculationResult) ==
  <<Action("SET_ERROR", "null"), Action("SET_LOADING", TRUE)>>
    \o (IF calculationResult.outcome = "ok"
        THEN <<Action("SET_ANALYSIS_DATA", AnalysisData(multiyear, calculationResult))>>
        ELSE <<Action("SET_ERROR", calculationResult.outcome)>>)
    \o <<Action("SET_LOADING", FALSE)>>

\* the dispatches of a handler that analyses multiyear for the state's sector
AnalysisDispatches(st, multiyear) ==
  ResultDispatches(multiyear, calculateAnalysis(multiyear, st.sector))

\* useFinancialAnalysis.processManualData; isValid is the answer of the
\* validation service
processManualData(st, data, isValid, date) ==
  IF isValid THEN Dispatch(st, AnalysisDispatches(st, data), 1, date)
  ELSE Dispatch(st, <<Action("SET_ERROR", "null"), Action("SET_LOADING", TRUE),
                      Action("SET_ERROR", "Données invalides"),
                      Action("SET_LOADING", FALSE)>>, 1, date)

\* useFinancialAnalysis.reanalyzeData on a state that holds analysis data
reanalyzeData(st, date) ==
  Dispatch(st, AnalysisDispatches(st, st.analysisData.multiyear_data), 1, date)

\* ------------------------------------- AppProvider: the session timeout
\* the session expires when hoursDiff > 2
SessionTimeoutHours == 2

\* the delay of the setTimeout, 60000 ms, in minutes
CheckDelayMinutes == 1

NoTimer == [armed |-> FALSE, due |-> 0]

\* the session timeout effect, which runs when state.lastActivity changes:
\* the cleanup clears the pending timeout, and a timeout is set only when
\* lastActivity is not null. lastActivity is the state's lastActivity after
\* the dispatches of minute date; a lastActivity of an earlier minute was
\* not assigned by them
sessionTimeoutEffect(pending, lastActivity, date) ==
  IF lastActivity = NoDate THEN NoTimer
  ELSE IF lastActivity = date
  THEN [armed |-> TRUE, due |-> date + CheckDelayMinutes]
  ELSE pending

\* the callback of the timeout at minute date, on the lastActivity the
\* effect closed over
sessionTimeoutCallback(st, date) ==
  IF date - st.lastActivity > SessionTimeoutHours * 60
  THEN appReducer(st, Action("CLEAR_SESSION", "null"), date)
  ELSE st

\* AppProvider.navigateTo
navigateTo(st, page, date) ==
  Dispatch(st, <<Action("SET_CURRENT_PAGE", page),
                 Action("UPDATE_ACTIVITY", "null")>>, 1, date)

\* ------------------------------------ AppProvider: loadSectoralNorms
\* the norms ApiService.getSectoralNorms returns for a sector are named by
\* the sector
SectoralNormsOf(requested) == requested

\* loadSectoralNorms returns early when norms are loaded for the sector
AlreadyLoaded(st, requested) == st.sectoralNorms # "null" /\ st.sector = requested

\* the rest of loadSectoralNorms once the request for requested has settled;
\* ok is response.success && response.data, and a rejected request is
\* only logged
sectoralNormsLoaded(st, requested, ok, date) ==
  IF ok
  THEN appReducer(st, Action("SET_SECTORAL_NORMS", SectoralNormsOf(requested)), date)
  ELSE st

\* ------------------------------- useFinancialAnalysis: uploadAndAnalyze
initialAnalysisState ==
  [isProcessing |-> FALSE, uploadProgress |-> 0, processingStep |-> "",
   warnings |-> <<>>]

\* updateProcessingState calls up to the await of processExcelFile
ProcessingStarted(processing) ==
  [processing EXCEPT !.isProcessing = TRUE, !.uploadProgress = 20,
                     !.processingStep = "Lecture du fichier Excel...",
                     !.warnings = <<>>]

\* the finally block of uploadAndAnalyze
ProcessingEnded(processing) ==
  [processing EXCEPT !.isProcessing = FALSE, !.uploadProgress = 0,
                     !.processingStep = ""]

\* the FileUploadResult of a run, with the states it leaves
UploadResult(st, processing, success, error) ==
  [state |-> st, analysisState |-> processing, success |-> success, error |-> error]

\* faulty variant: a failed Excel processing returns before the try block,
\* so that the finally block does not run for it
uploadCompletedEarlyReturn(st, processing, excelResult, calculationResult, date) ==
  IF ~excelResult.success
  THEN UploadResult(st, [processing EXCEPT !.uploadProgress = 20],
                    FALSE, excelResult.error)
  ELSE IF calculationResult.outcome # "ok"
  THEN UploadResult(appReducer(st, Action("SET_ERROR", calculationResult.outcome), date),
                    ProcessingEnded(processing), FALSE, calculationResult.outcome)
  ELSE UploadResult(
         appReducer(st, Action("SET_ANALYSIS_DATA",
                               AnalysisData(excelResult.data, calculationResult)), date),
         ProcessingEnded(IF excelResult.warnings # <<>>
                         THEN [processing EXCEPT !.warnings = excelResult.warnings]
                         ELSE processing),
         TRUE, "")

\* uploadAndAnalyze from the return of processExcelFile on; excelResult is
\* what it returned and calculationResult what calculateAnalysis returns or
\* throws for its data
uploadCompleted(st, processing, excelResult, calculationResult, date) ==
  IF ~excelResult.success
  THEN UploadResult(st, ProcessingEnded(processing), FALSE, excelResult.error)
  ELSE IF calculationResult.outcome # "ok"
  THEN UploadResult(appReducer(st, Action("SET_ERROR", calculationResult.outcome), date),
                    ProcessingEnded(processing), FALSE, calculationResult.outcome)
  ELSE UploadResult(
         appReducer(st, Action("SET_ANALYSIS_DATA",
                               AnalysisData(excelResult.data, calculationResult)), date),
         ProcessingEnded(IF excelResult.warnings # <<>>
                         THEN [processing EXCEPT !.warnings = excelResult.warnings]
                         ELSE processing),
         TRUE, "")

\* the amounts read from the sheets, which are whole numbers, as the
\* integers the calculator works on
WholeAmounts(multiyear) ==
  [k \in DOMAIN multiyear |->
     [year |-> multiyear[k].year,
      data |-> [f \in DOMAIN multiyear[k].data |->
                  multiyear[k].data[f][1] \div multiyear[k].data[f][2]]]]

\* the analysis of the data processExcelFile returned, for the sector the
\* callback closed over; it is not computed for a failed result
UploadAnalysis(excelResult, closedSector) ==
  IF excelResult.success
  THEN calculateAnalysis(WholeAmounts(excelResult.data), closedSector)
  ELSE Thrown("not run")

\* -------------------------------------------------------------- the machine
VARIABLES
  multiyearData,  \* the session's MultiyearData
  sector,         \* the selected sector (AppState.sector)
  analysis,       \* the outcome of calculateAnalysis
  compliance,     \* the compliance report
  pc,             \* the position of the run, "input" before any operation
  evaluation,     \* the result of one evaluateCompliance call
  scoring,        \* the result of one scoreRatio call
  rawValue,       \* the cell value handed to parseNumericValue
  parsed,         \* the number parseNumericValue returned
  file,           \* the uploaded file and the workbook read from it
  yearConfig,     \* the year configuration of the upload
  extraction,     \* the result of extractDataFromOhadaTemplate
  sheetResult,    \* the result of processWorksheet
  fileResult,     \* the ExcelProcessingResult of processExcelFile
  derivedData,    \* the MultiyearData calculateDerivedFields works on
  derivedBefore,  \* derivedData before the latest calculateDerivedFields pass
  passes,         \* the number of calculateDerivedFields passes so far
  state,          \* the AppState of the AppProvider
  now,            \* the clock, in minutes
  timer,          \* the pending session timeout
  requests,       \* the sectors of the getSectoralNorms requests in flight
  analysisState,  \* the AnalysisState of useFinancialAnalysis
  upload          \* the uploadAndAnalyze run

calculatorVars ==
  <<multiyearData, sector, analysis, compliance, pc, evaluation, scoring>>
excelVars ==
  <<rawValue, parsed, file, yearConfig, extraction, sheetResult, fileResult,
    derivedData, derivedBefore, passes>>
appVars == <<state, now, timer, requests, analysisState, upload>>

vars ==
  <<multiyearData, sector, analysis, compliance, pc, evaluation, scoring,
    rawValue, parsed, file, yearConfig, extraction, sheetResult, fileResult,
    derivedData, derivedBefore, passes, state, now, timer, requests,
    analysisState, upload>>

NotRun == Thrown("not run")
NoEvaluation ==
  [ratioName |-> "none", value |-> NaN, norm |-> [r \in {} |-> NaN],
   isCompliant |-> FALSE, status |-> "none", hasRecommendation |-> FALSE]

NoScoring ==
  [ratioName |-> "none", value |-> NaN, norm |-> [r \in {} |-> NaN],
   maxPoints |-> 0, inverse |-> FALSE, points |-> NaN]

NoWorkbook == [SheetNames |-> <<>>, Sheets |-> [n \in {} |-> NoData], rows |-> <<>>]
NoFile == [type |-> "", size |-> 0, readable |-> FALSE, workbook |-> NoWorkbook]
NoExtraction == [called |-> FALSE, data |-> NoYears, warnings |-> <<>>]
IdleCalculator ==
  /\ analysis = NotRun
  /\ compliance = <<>>
  /\ pc = "input"
  /\ evaluation = NoEvaluation
  /\ scoring = NoScoring

IdleParse == rawValue = JsUndefined /\ parsed = NaN
IdleFile == file = NoFile /\ yearConfig = NoYearConfig
IdleExcel ==
  /\ extraction = NoExtraction
  /\ sheetResult = Processed(NoYears, <<>>)
  /\ fileResult = Failure("not run", <<>>)
IdleDerived == derivedData = NoYears /\ derivedBefore = NoYears /\ passes = 0
\* no run of uploadAndAnalyze yet
NoUpload ==
  [phase |-> "idle", file |-> NoFile, config |-> NoYearConfig, sector |-> "general",
   success |-> FALSE]
IdleHooks ==
  /\ requests = {}
  /\ analysisState = initialAnalysisState
  /\ upload = NoUpload
IdleApp == state = initialState /\ now = 0 /\ timer = NoTimer /\ IdleHooks

Idle ==
  /\ IdleCalculator
  /\ IdleParse /\ IdleFile /\ IdleExcel /\ IdleDerived /\ IdleApp

\* a single year 'N', sparsely filled, analysed for the default sector
InitSparse ==
  /\ sector = "general"
  /\ \E d \in SparseData : multiyearData = [k \in {"N"} |-> YearRecord(k, d)]

\* a single year 'N' with every scored field filled, for any sector
InitFilled ==
  /\ sector \in Sectors
  /\ \E d \in FilledData : multiyearData = [k \in {"N"} |-> YearRecord(k, d)]

\* zero to three years of results
InitMultiyear ==
  /\ sector = "general"
  /\ \E m \in MultiyearInputs :
       multiyearData = [k \in DOMAIN m |-> YearRecord(k, m[k])]

Init == Idle /\ (InitSparse \/ InitFilled \/ InitMultiyear)

\* the analysis of the session's data (useFinancialAnalysis.calculateRatios,
\* which catches what calculateAnalysis throws)
Analyse ==
  /\ pc = "input"
  /\ analysis' = calculateAnalysis(multiyearData, sector)
  /\ pc' = "analysed"
  /\ UNCHANGED <<multiyearData, sector, compliance, evaluation, scoring>>
  /\ UNCHANGED <<excelVars, appVars>>

\* the compliance report over the latest year of the analysed data
ComplianceReport ==
  /\ pc = "analysed"
  /\ DOMAIN multiyearData # {}
  /\ LET latestData == multiyearData[getLatestYearKey(multiyearData)]
     IN compliance' = checkBceaoCompliance(calculateRatios(latestData.data), sector)
  /\ pc' = "reported"
  /\ UNCHANGED <<multiyearData, sector, analysis, evaluation, scoring>>
  /\ UNCHANGED <<excelVars, appVars>>

Next == Analyse \/ ComplianceReport

Spec == Init /\ [][Next]_vars

\* ------------------------------------------ evaluateCompliance on its own
\* the norm entries of the tables for ratio r
TableNorms(r) ==
  {BCEAO_NORMS[r]} \cup
  {SECTORAL_NORMS[s][r] : s \in {t \in DOMAIN SECTORAL_NORMS : r \in DOMAIN SECTORAL_NORMS[t]}}

\* a norm entry without its optimal target
WithoutOptimal(norm) == [k \in DOMAIN norm \ {"optimal"} |-> norm[k]]

NormInputs(r) == TableNorms(r) \cup {WithoutOptimal(n) : n \in TableNorms(r)}

Epsilon == Dec(1, 100)

\* values at, just below and just above every threshold of the norm, and
\* zero and a negative value
ValueGrid(norm) ==
  LET base == IF "min" \in DOMAIN norm THEN norm.min ELSE norm.max
      marks == {JsMul(base, Dec(k, 10)) : k \in {6, 7, 8, 10, 12, 13, 15}}
                 \cup (IF "optimal" \in DOMAIN norm THEN {norm.optimal} ELSE {})
  IN {JsAdd(m, e) : m \in marks, e \in {JsSub(Num(0), Epsilon), Num(0), Epsilon}}
       \cup {Num(0), Num(-1)}

InitCompliance ==
  /\ Idle
  /\ sector = "general"
  /\ multiyearData = [k \in {} |-> YearRecord("N", NoRatios)]

\* one call of evaluateCompliance on a norm entry and a value
Evaluate ==
  /\ evaluation = NoEvaluation
  /\ \E r \in DOMAIN BCEAO_NORMS : \E norm \in NormInputs(r) : \E value \in ValueGrid(norm) :
       evaluation' = evaluateCompliance(r, value, norm)
  /\ UNCHANGED <<multiyearData, sector, analysis, compliance, pc, scoring>>
  /\ UNCHANGED <<excelVars, appVars>>

NextCompliance == Evaluate

SpecCompliance == InitCompliance /\ [][NextCompliance]_vars

\* ------------------------------------------------ scoreRatio on its own
\* the entries of the four scored categories
ScoredRatios ==
  Range(liquidityRatios) \cup Range(leverageRatios)
    \cup Range(profitabilityRatios) \cup Range(efficiencyRatios)

\* one call of scoreRatio as calculateScore makes it, on a norm entry and a value
ScoreRatio ==
  /\ scoring = NoScoring
  /\ \E c \in ScoredRatios : \E norm \in NormInputs(c.ratio) : \E value \in ValueGrid(norm) :
       scoring' = [ratioName |-> c.ratio, value |-> value, norm |-> norm,
                   maxPoints |-> c.points, inverse |-> c.inverse,
                   points |-> scoreRatio(value, norm, c.points, c.inverse)]
  /\ UNCHANGED <<multiyearData, sector, analysis, compliance, pc, evaluation>>
  /\ UNCHANGED <<excelVars, appVars>>

NextScore == ScoreRatio

SpecScore == InitCompliance /\ [][NextScore]_vars

\* ------------------------------------------- parseNumericValue on its own
MaxLen == 4

\* digits, both separators, a sign, a space, a currency symbol and a letter
Alphabet == {"1", "5", ",", ".", "-", " ", "€", "x"}

Texts == UNION {[1..n -> Alphabet] : n \in 0..MaxLen}

\* the amounts "1.234,56", "1,234.56" and "€ 1 234"
FrenchAmount == <<"1", ".", "2", "3", "4", ",", "5", "6">>
EnglishAmount == <<"1", ",", "2", "3", "4", ".", "5", "6">>
EuroAmount == <<"€", " ", "1", " ", "2", "3", "4">>

\* every kind of value a cell can hold
RawValues ==
  {JsNull, JsUndefined, JsBoolean}
    \cup {JsNumber(x) : x \in {Num(-1), Num(0), Num(1), Frac(1, 2), NaN, <<1, 0>>}}
    \cup {JsString(s) : s \in Texts \cup {FrenchAmount, EnglishAmount, EuroAmount}}

InitParse ==
  /\ IdleCalculator /\ IdleFile /\ IdleExcel /\ IdleDerived /\ IdleApp
  /\ multiyearData = NoYears
  /\ sector = "general"
  /\ rawValue \in RawValues
  /\ parsed = NaN

\* one call of parseNumericValue
Parse ==
  /\ pc = "input"
  /\ parsed' = parseNumericValue(rawValue)
  /\ pc' = "parsed"
  /\ UNCHANGED <<multiyearData, sector, analysis, compliance, evaluation, scoring, rawValue,
                 file, yearConfig, extraction, sheetResult, fileResult,
                 derivedData, derivedBefore, passes, appVars>>

NextParse == Parse

SpecParse == InitParse /\ [][NextParse]_vars

\* ---------------------------------------------- processExcelFile on a file
\* what a current-period cell holds: nothing, 0, an amount, a text amount
\* or the empty string; a prior-period cell holds nothing or an amount
CurrentValues ==
  {JsUndefined, JsNumber(Num(0)), JsNumber(Num(7)), JsString(<<"1", ",", "5">>),
   JsString(<<>>)}
PriorValues == {JsUndefined, JsNumber(Num(7))}

\* the fields whose cells the input workbooks fill, per sheet
FilledFields ==
  [Bilan |-> {"total_actif", "subventions_investissement"},
   CR |-> {"chiffre_affaires"},
   TFT |-> {"subventions_investissement"}]

\* a worksheet without any cell
EmptySheet == [a \in {} |-> JsUndefined]

\* the worksheets of a sheet: empty, or with the two cells of one field
SheetInputs(s) ==
  {EmptySheet} \cup
  UNION {{[a \in {m.cell_n, m.cell_n1} |-> IF a = m.cell_n THEN vn ELSE vn1] :
            vn \in CurrentValues,
            vn1 \in IF s.name = "TFT" THEN {JsUndefined} ELSE PriorValues} :
           m \in {e \in Range(s.mappings) : e.field \in FilledFields[s.name]}}

AllSheetInputs == UNION {SheetInputs(s) : s \in Range(sheetsToProcess)}

\* texts of the generic layout: a header row, a row of the year 2023 with a
\* total_actif of 8, a row without a year
HeaderRow == << <<"A", "n">>, <<"A", "c", "t", "i", "f">> >>
YearRow == << <<"2", "0", "2", "3">>, <<"8">> >>
TextRow == << <<"T", "o", "t", "a", "l">>, <<"8">> >>
RowInputs == {<<>>, <<HeaderRow, YearRow>>, <<HeaderRow, TextRow>>}

\* a workbook with the statement sheets of present, or with the single
\* sheet 'Feuil1', or without any sheet
BookOf(sheets, rows) ==
  [SheetNames |-> SelectSeq(<<"Bilan", "CR", "TFT", "Feuil1">>,
                            LAMBDA n : n \in DOMAIN sheets),
   Sheets |-> sheets, rows |-> rows]

\* the workbook of the extraction example: total_actif and capitaux_propres
\* on the balance sheet, chiffre_affaires and resultat_net on the income
\* statement, each cell a text of digits
StatementBook ==
  BookOf([Bilan |-> [E35 |-> JsString(<<"1", "0", "7", "0", "0", "0", "0", "0">>),
                     I15 |-> JsString(<<"6", "0", "0", "0", "0", "0", "0">>)],
          CR |-> [E12 |-> JsString(<<"8", "0", "0", "0", "0", "0", "0">>),
                  E46 |-> JsString(<<"1", "0", "0", "0", "0", "0", "0">>)]],
         <<>>)

WorkbookInputs ==
  {BookOf(sheets, rows) :
     sheets \in UNION {{f \in [present -> AllSheetInputs] :
                          \A s \in Range(sheetsToProcess) :
                            s.name \in present => f[s.name] \in SheetInputs(s)} :
                       present \in (SUBSET expectedSheets) \ {{}}},
     rows \in RowInputs}
    \cup {BookOf([n \in {"Feuil1"} |-> EmptySheet], rows) : rows \in RowInputs}
    \cup {NoWorkbook, StatementBook}

ExcelFile(type, size, readable, book) ==
  [type |-> type, size |-> size, readable |-> readable, workbook |-> book]

XlsxType == "application/vnd.openxmlformats-officedocument.spreadsheetml.sheet"

\* readable Excel files, and a text file, an oversized file, a file
\* XLSX.read rejects and a workbook without sheets
FileInputs ==
  {ExcelFile(XlsxType, 1, TRUE, book) : book \in WorkbookInputs}
    \cup {ExcelFile("text/csv", 1, TRUE, NoWorkbook),
          ExcelFile(XlsxType, MaxFileSize + 1, TRUE, NoWorkbook),
          ExcelFile("application/vnd.ms-excel", MaxFileSize, FALSE, NoWorkbook)}

\* the ranges of one or two years among the last three years
YearRanges ==
  {range \in ((referenceYear - 2)..referenceYear) \X ((referenceYear - 2)..referenceYear) :
     range[1] <= range[2] /\ range[2] <= range[1] + 1}

\* no configuration, or a primary year with a range of one or two years
YearConfigInputs ==
  {NoYearConfig}
    \cup {YearConfig(referenceYear, range[1], range[2]) : range \in YearRanges}
    \cup {YearConfig(referenceYear - 1, referenceYear - 1, referenceYear - 1)}

InitExcel ==
  /\ IdleCalculator /\ IdleParse /\ IdleExcel /\ IdleDerived /\ IdleApp
  /\ multiyearData = NoYears
  /\ sector = "general"
  /\ file \in FileInputs
  /\ yearConfig \in YearConfigInputs

\* the file reaches processWorksheet
Readable(f) ==
  /\ f.type \in validTypes
  /\ f.size <= MaxFileSize
  /\ f.readable
  /\ Len(f.workbook.SheetNames) > 0

\* one call of processExcelFile, with the results of the processWorksheet
\* and extractDataFromOhadaTemplate calls it makes
ProcessExcelFile ==
  /\ pc = "input"
  /\ fileResult' = processExcelFile(file, yearConfig)
  /\ sheetResult' = IF Readable(file) THEN processWorksheet(file.workbook, yearConfig)
                    ELSE sheetResult
  /\ extraction' =
       IF Readable(file) /\ expectedSheets \cap Range(file.workbook.SheetNames) # {}
       THEN [called |-> TRUE] @@ extractDataFromOhadaTemplate(file.workbook, yearConfig)
       ELSE extraction
  /\ pc' = "processed"
  /\ UNCHANGED <<multiyearData, sector, analysis, compliance, evaluation, scoring, rawValue, parsed,
                 file, yearConfig, derivedData, derivedBefore, passes, appVars>>

NextExcel == ProcessExcelFile

SpecExcel == InitExcel /\ [][NextExcel]_vars

\* ------------------------------------- calculateDerivedFields on its own
MaxPasses == 2

\* a field is absent, negative, zero or positive
DerivedAmounts == {Num(-1), Num(0), Num(2)}

\* the fields each derivation step reads and writes
RevenueGroup ==
  {"marge_commerciale", "chiffre_affaires", "production_stockee",
   "total_produits_exploitation", "resultat_exploitation", "total_charges_exploitation"}
ComponentGroup ==
  {"chiffre_affaires", "production_immobilisee", "subvention_exploitation",
   "autres_produits", "transferts_charges"}
BalanceGroup ==
  {"total_actif_circulant", "total_dettes", "tresorerie_actif", "tresorerie_passif",
   "bfr", "working_capital"}
ResultGroup == {"resultat_exercice", "resultat_net"}

\* a year's data with any fields of one group, raw or already derived
DerivedInputs ==
  UNION {UNION {[fields -> DerivedAmounts] : fields \in SUBSET group} :
           group \in {RevenueGroup, ComponentGroup, BalanceGroup, ResultGroup}}

InitDerived ==
  /\ IdleCalculator /\ IdleParse /\ IdleFile /\ IdleExcel /\ IdleApp
  /\ multiyearData = NoYears
  /\ sector = "general"
  /\ \E d \in DerivedInputs :
       derivedData = [k \in {"N"} |-> [year |-> getYearFromKey(k, referenceYear), data |-> d]]
  /\ derivedBefore = NoYears
  /\ passes = 0

\* one pass of calculateDerivedFields over the data, in place
DeriveFields ==
  /\ pc \in {"input", "derived"}
  /\ passes < MaxPasses
  /\ derivedBefore' = derivedData
  /\ derivedData' = calculateDerivedFields(derivedData)
  /\ passes' = passes + 1
  /\ pc' = "derived"
  /\ UNCHANGED <<multiyearData, sector, analysis, compliance, evaluation, scoring, rawValue, parsed,
                 file, yearConfig, extraction, sheetResult, fileResult, appVars>>

NextDerived == DeriveFields

SpecDerived == InitDerived /\ [][NextDerived]_vars

\* ------------------------------------------------- the application state
\* the statements entered by hand: every scored field filled, the balance
\* sheet fields with one amount; and the MultiyearData without any year
ManualInputs ==
  {[k \in {"N"} |-> YearRecord(k, d)] :
     d \in {f \in FilledData : \A a, b \in BalanceFields : f[a] = f[b]}}
    \cup {NoYears}

\* the provider is mounted: initializeSession has given the session its id
InitApp ==
  /\ IdleCalculator /\ IdleParse /\ IdleFile /\ IdleExcel /\ IdleDerived
  /\ multiyearData = NoYears
  /\ sector = "general"
  /\ now = 0
  /\ state = appReducer(initialState, Action("SET_SESSION_ID", "session"), now)
  /\ timer = sessionTimeoutEffect(NoTimer, state.lastActivity, now)
  /\ IdleHooks

\* the user submits a statement entered by hand
ProcessManualData ==
  /\ \E data \in ManualInputs : \E isValid \in BOOLEAN :
       state' = processManualData(state, data, isValid, now)
  /\ timer' = sessionTimeoutEffect(timer, state'.lastActivity, now)
  /\ UNCHANGED <<calculatorVars, excelVars, now, requests, analysisState, upload>>

\* the user picks a sector on the configuration page
SetSector ==
  /\ \E newSector \in Sectors : state' = setSector(state, newSector, now)
  /\ UNCHANGED <<calculatorVars, excelVars, now, timer, requests, analysisState, upload>>

\* the analysis stored in the state is computed again
ReanalyzeData ==
  /\ state.analysisData.present
  /\ state' = reanalyzeData(state, now)
  /\ timer' = sessionTimeoutEffect(timer, state'.lastActivity, now)
  /\ UNCHANGED <<calculatorVars, excelVars, now, requests, analysisState, upload>>

NextApp == ProcessManualData \/ SetSector \/ ReanalyzeData

SpecApp == InitApp /\ [][NextApp]_vars

\* --------------------------------------------------- the session timeout
MaxClock == 123

Pages == {"home", "analysis"}

\* a minute passes
Tick ==
  /\ now < MaxClock
  /\ now' = now + 1
  /\ UNCHANGED <<calculatorVars, excelVars, state, timer, requests, analysisState, upload>>

\* the user opens a page
NavigateTo ==
  /\ \E page \in Pages : state' = navigateTo(state, page, now)
  /\ timer' = sessionTimeoutEffect(timer, state'.lastActivity, now)
  /\ UNCHANGED <<calculatorVars, excelVars, now, requests, analysisState, upload>>

\* the pending timeout runs its callback, on time or late
SessionTimeout ==
  /\ timer.armed
  /\ now >= timer.due
  /\ state' = sessionTimeoutCallback(state, now)
  /\ timer' = NoTimer
  /\ UNCHANGED <<calculatorVars, excelVars, now, requests, analysisState, upload>>

NextSession == Tick \/ NavigateTo \/ SessionTimeout

\* time passes, and a pending timeout runs its callback
SpecSession ==
  /\ InitApp
  /\ [][NextSession]_vars
  /\ WF_vars(Tick)
  /\ WF_vars(SessionTimeout)

\* ------------------------------------------------ the sectoral norms
\* a component asks for the norms of the selected sector
LoadSectoralNorms ==
  /\ ~AlreadyLoaded(state, state.sector)
  /\ requests' = requests \cup {state.sector}
  /\ UNCHANGED <<calculatorVars, excelVars, state, now, timer, analysisState, upload>>

\* a request settles
SectoralNormsLoaded ==
  /\ \E requested \in requests : \E ok \in BOOLEAN :
       /\ state' = sectoralNormsLoaded(state, requested, ok, now)
       /\ requests' = requests \ {requested}
  /\ UNCHANGED <<calculatorVars, excelVars, now, timer, analysisState, upload>>

NextNorms == SetSector \/ LoadSectoralNorms \/ SectoralNormsLoaded

SpecNorms == InitApp /\ [][NextNorms]_vars

\* ------------------------------------------------------------ the upload
\* the statement workbook, a workbook whose rows hold no year, and files
\* processExcelFile refuses
UploadInputs ==
  {ExcelFile(XlsxType, 1, TRUE, StatementBook),
   ExcelFile(XlsxType, 1, TRUE, BookOf([n \in {"Feuil1"} |-> EmptySheet],
                                       <<HeaderRow, TextRow>>)),
   ExcelFile(XlsxType, 1, TRUE, BookOf([n \in {"Feuil1"} |-> EmptySheet],
                                       <<HeaderRow, YearRow>>)),
   ExcelFile("text/csv", 1, TRUE, NoWorkbook),
   ExcelFile("application/vnd.ms-excel", MaxFileSize, FALSE, NoWorkbook)}

\* uploadAndAnalyze up to the await of processExcelFile
UploadAndAnalyze ==
  /\ upload.phase # "reading"
  /\ \E f \in UploadInputs : \E config \in {NoYearConfig, YearConfig(referenceYear, referenceYear, referenceYear)} :
       upload' = [phase |-> "reading", file |-> f, config |-> config,
                  sector |-> state.sector, success |-> FALSE]
  /\ state' = appReducer(state, Action("SET_ERROR", "null"), now)
  /\ analysisState' = ProcessingStarted(analysisState)
  /\ UNCHANGED <<calculatorVars, excelVars, now, timer, requests>>

\* uploadAndAnalyze from the return of processExcelFile to its own return.
\* The calculator throws for none of the results processExcelFile reports
\* as a success; an error thrown inside the try block is admitted as well,
\* so that the catch block is part of the runs
UploadCompleted ==
  /\ upload.phase = "reading"
  /\ \E thrown \in BOOLEAN :
     \E result \in {uploadCompleted(state, analysisState,
                                    processExcelFile(upload.file, upload.config),
                                    IF thrown
                                    THEN Thrown("Erreur lors du traitement du fichier")
                                    ELSE UploadAnalysis(processExcelFile(upload.file,
                                                                         upload.config),
                                                        upload.sector),
                                    now)} :
       /\ state' = result.state
       /\ analysisState' = result.analysisState
       /\ upload' = [upload EXCEPT !.phase = "done", !.success = result.success]
  /\ timer' = sessionTimeoutEffect(timer, state'.lastActivity, now)
  /\ UNCHANGED <<calculatorVars, excelVars, now, requests>>

NextUpload == UploadAndAnalyze \/ UploadCompleted \/ SetSector

SpecUpload == InitApp /\ [][NextUpload]_vars

\* ================================================================== claims
Analysed == pc # "input" /\ analysis.outcome = "ok"
Reported == pc = "reported"
LatestData == multiyearData[getLatestYearKey(multiyearData)].data

\* the field each ratio divides by (working_capital is a difference)
RatioDivisor ==
  [ ratio_liquidite_generale |-> "total_dettes",
    ratio_liquidite_immediate |-> "total_dettes",
    ratio_autonomie_financiere |-> "total_actif",
    ratio_endettement |-> "total_actif",
    ratio_couverture_dettes |-> "dettes_financieres",
    roe |-> "capitaux_propres",
    roa |-> "total_actif",
    marge_nette |-> "chiffre_affaires",
    marge_brute |-> "chiffre_affaires",
    rotation_actif |-> "total_actif",
    rotation_stocks |-> "total_actif_circulant",
    ratio_financement_stable |-> "total_actif_immobilise",
    marge_ebe |-> "chiffre_affaires",
    taux_valeur_ajoutee |-> "chiffre_affaires" ]

\* C1: whenever the session holds at least one year, the analysis returns
\* without throwing, every ratio it returns is finite, and a ratio whose
\* divisor field is 0 or absent is not in the result.
C1_RatiosFiniteAndGuarded ==
  (pc # "input" /\ DOMAIN multiyearData # {}) =>
     /\ analysis.outcome = "ok"
     /\ \A r \in DOMAIN analysis.ratios : IsFinite(analysis.ratios[r])
     /\ \A r \in DOMAIN RatioDivisor :
          (RatioDivisor[r] \notin DOMAIN LatestData \/ LatestData[RatioDivisor[r]] = 0)
            => r \notin DOMAIN analysis.ratios

\* total_actif = 0 with a nonzero resultat_net: no roa
C1_Witness ==
  /\ Analysed
  /\ DOMAIN LatestData = {"total_actif", "resultat_net"}
  /\ LatestData["total_actif"] = 0
  /\ LatestData["resultat_net"] = 1
  /\ "roa" \notin DOMAIN analysis.ratios

\* C2: in every ComplianceResult of the report, isCompliant is true if and
\* only if the status is 'excellent' or 'good'.
C2_CompliantIffGoodOrExcellent ==
  Reported =>
    \A i \in 1..Len(compliance) :
      compliance[i].isCompliant <=> compliance[i].status \in {"excellent", "good"}

\* v >= base * num / den, for fractions with positive denominators
AtLeast(v, base, num, den) == v[1] * base[2] * den >= num * base[1] * v[2]

\* the target of the top band: optimal, or base * dflt / 10 when optimal is unset
AtLeastTarget(v, norm, base, dflt) ==
  IF "optimal" \in DOMAIN norm THEN AtLeast(v, norm.optimal, 1, 1)
  ELSE AtLeast(v, base, dflt, 10)
AtMostTarget(v, norm, base, dflt) ==
  IF "optimal" \in DOMAIN norm THEN AtLeast(norm.optimal, v, 1, 1)
  ELSE v[1] * base[2] * 10 <= dflt * base[1] * v[2]

MinBound(norm) == "min" \in DOMAIN norm /\ "max" \notin DOMAIN norm
MaxBound(norm) == "max" \in DOMAIN norm /\ "min" \notin DOMAIN norm

Severity == <<"critical", "poor", "acceptable", "good", "excellent">>
SeverityRank(st) == CHOOSE i \in 1..Len(Severity) : Severity[i] = st

\* the ratio keys of the effective norm table of a sector
EffectiveKeys(sec) ==
  DOMAIN BCEAO_NORMS \cup
    (IF sec # "general" /\ sec \in DOMAIN SECTORAL_NORMS
     THEN DOMAIN SECTORAL_NORMS[sec] ELSE {})

\* C5: the report is ordered by ascending severity (critical first) and holds
\* exactly one result for each ratio key present both in the ratios and in
\* the effective norm table.
C5_ReportSortedAndComplete ==
  Reported =>
    /\ \A i \in 1..(Len(compliance) - 1) :
         SeverityRank(compliance[i].status) <= SeverityRank(compliance[i + 1].status)
    /\ \A r \in DOMAIN analysis.ratios \cap EffectiveKeys(sector) :
         Cardinality({i \in 1..Len(compliance) : compliance[i].ratioName = r}) = 1
    /\ \A i \in 1..Len(compliance) :
         compliance[i].ratioName \in DOMAIN analysis.ratios \cap EffectiveKeys(sector)

\* a report of several statuses over ratios of which one has no norm
C5_Witness ==
  /\ Reported
  /\ Len(compliance) >= 3
  /\ compliance[1].status # compliance[Len(compliance)].status
  /\ "working_capital" \in DOMAIN analysis.ratios

\* the norm the claim gives ratio r under sector sec
ClaimedNorm(sec, r) ==
  IF sec # "general" /\ sec \in DOMAIN SECTORAL_NORMS /\ r \in DOMAIN SECTORAL_NORMS[sec]
  THEN SECTORAL_NORMS[sec][r]
  ELSE BCEAO_NORMS[r]

\* C6: every ratio with a baseline norm is judged against the sector's entry
\* when the sector is not 'general', has a table and the table has the ratio,
\* and against the baseline entry otherwise; a sector without a table gives
\* the score and the report of 'general'.
C6_EffectiveNorms ==
  /\ Reported =>
       \A r \in DOMAIN analysis.ratios \cap DOMAIN BCEAO_NORMS :
         \E i \in 1..Len(compliance) :
           compliance[i].ratioName = r /\ compliance[i].norm = ClaimedNorm(sector, r)
  /\ (Analysed /\ sector \notin DOMAIN SECTORAL_NORMS) =>
       analysis.score = calculateScore(analysis.ratios, "general")
  /\ (Reported /\ sector \notin DOMAIN SECTORAL_NORMS) =>
       compliance = checkBceaoCompliance(analysis.ratios, "general")

\* a report for a sector that has no table
C6_Witness ==
  /\ Reported
  /\ sector = "transport"
  /\ Len(compliance) >= 8

\* the raw points of the five categories (trend is the flat 12)
RawPoints ==
  LET norms == EffectiveNorms(sector)
      Cat(list) == CategoryScore(list, 1, analysis.ratios, norms)
  IN JsAdd(JsAdd(JsAdd(JsAdd(Cat(liquidityRatios), Cat(leverageRatios)),
                       Cat(profitabilityRatios)), Cat(efficiencyRatios)), Num(12))

C8_RiskLevelBands ==
  Analysed =>
    LET o == analysis.score.overall
        level == analysis.score.risk_level
    IN /\ level = "low" <=> o >= 80
       /\ level = "medium" <=> (60 <= o /\ o < 80)
       /\ level = "high" <=> (40 <= o /\ o < 60)
       /\ level = "critical" <=> o < 40

\* a score in the fifties, rated 'high'
C8_Witness ==
  /\ Analysed
  /\ analysis.score.overall \in 50..59
  /\ analysis.score.risk_level = "high"

\* the keys of the most recent year and of the year before it
MostRecentKey == CHOOSE k \in DOMAIN multiyearData :
  \A o \in DOMAIN multiyearData : multiyearData[o].year <= multiyearData[k].year
PriorKey == CHOOSE k \in DOMAIN multiyearData \ {MostRecentKey} :
  \A o \in DOMAIN multiyearData \ {MostRecentKey} :
    multiyearData[o].year <= multiyearData[k].year
RoeOf(k) == calculateRatios(multiyearData[k].data)["roe"]
HasInsight(category, type) ==
  \E i \in 1..Len(analysis.insights) :
    analysis.insights[i].category = category /\ analysis.insights[i].type = type

\* C9: with two or more years, a ROE that rose by more than 2 points from
\* the prior year to the most recent year gives a 'positive' profitability
\* insight, and one that fell by more than 2 points a 'negative' one.
C9_RoeTrendOfMostRecentYears ==
  (Analysed /\ Cardinality(DOMAIN multiyearData) >= 2) =>
    LET change == JsSub(RoeOf(MostRecentKey), RoeOf(PriorKey))
    IN /\ Gt(change, Num(2)) => HasInsight("profitability", "positive")
       /\ Lt(change, Num(-2)) => HasInsight("profitability", "negative")

\* C10: with fewer than two years the insight list is empty, and with the
\* single year 'N' the analysis completes with the ratios of that year and
\* the score of those ratios for the selected sector.
C10_SingleYear ==
  /\ (pc # "input" /\ Cardinality(DOMAIN multiyearData) < 2) => analysis.insights = <<>>
  /\ (pc # "input" /\ DOMAIN multiyearData = {"N"}) =>
       /\ analysis.outcome = "ok"
       /\ analysis.ratios = calculateRatios(multiyearData["N"].data)
       /\ analysis.score = calculateScore(analysis.ratios, sector)
       /\ analysis.score.overall \in 0..100
       /\ Len(analysis.recommendations) >= 1

\* the single year 'N' with a liquidity below 1.2: a score, a liquidity
\* recommendation and no insight
C10_Witness ==
  /\ Analysed
  /\ DOMAIN multiyearData = {"N"}
  /\ "ratio_liquidite_generale" \in DOMAIN analysis.ratios
  /\ Lt(analysis.ratios["ratio_liquidite_generale"], <<6, 5>>)
  /\ analysis.insights = <<>>
  /\ analysis.recommendations[1].category = "Liquidite"

\* C11: calculateAnalysis on a MultiyearData without any year ends with the
\* 'No financial data available for analysis' error.
C11_EmptyDataRejected ==
  (pc # "input" /\ DOMAIN multiyearData = {}) =>
    analysis.outcome = "No financial data available for analysis"

\* C15: parseNumericValue returns 0 for null, undefined and the empty
\* string, returns a number unchanged, returns 0 for a string without a
\* digit, and never returns NaN.
C15_ParseTotal ==
  pc = "parsed" =>
    /\ ~IsNaN(parsed)
    /\ (rawValue.type \in {"null", "undefined"} \/ rawValue = JsString(<<>>)) =>
         parsed = Num(0)
    /\ rawValue.type = "number" => parsed = rawValue.num
    /\ (rawValue.type = "string" /\ ~\E c \in Range(rawValue.str) : IsDigit(c)) =>
         parsed = Num(0)

\* the position of the rightmost ',' or '.' of a text, 0 without one
RECURSIVE LastSeparator(_, _)
LastSeparator(s, i) ==
  IF i = 0 THEN 0
  ELSE IF s[i] \in {",", "."} THEN i
  ELSE LastSeparator(s, i - 1)

\* the text with its rightmost separator as the decimal point and every
\* other separator dropped
RightmostAsDecimal(s) ==
  LET last == LastSeparator(s, Len(s))
      marked == [i \in 1..Len(s) |->
                   IF i = last THEN "." ELSE IF s[i] \in {",", "."} THEN " " ELSE s[i]]
  IN Remove(marked, WhiteSpace)

\* the number a text stands for when its rightmost separator is the decimal
ClaimedNumber(s) ==
  LET stripped == Remove(Remove(s, CurrencySymbols), WhiteSpace)
      number == parseFloat(KeepNumeric(RightmostAsDecimal(stripped)))
  IN IF IsNaN(number) THEN Num(0) ELSE number

\* C16: in a string with both ',' and '.', the rightmost of the two is the
\* decimal separator and the other a thousands separator: "1.234,56" and
\* "1,234.56" parse to 1234.56, and "€ 1 234" parses to 1234.
C16_RightmostSeparatorIsDecimal ==
  (pc = "parsed" /\ rawValue.type = "string") =>
    /\ ({",", "."} \subseteq Range(rawValue.str)) => parsed = ClaimedNumber(rawValue.str)
    /\ rawValue.str \in {FrenchAmount, EnglishAmount} => parsed = Frac(123456, 100)
    /\ rawValue.str = EuroAmount => parsed = Num(1234)

\* the cell of a worksheet holds a value (not undefined, null or '')
CellFilled(worksheet, cellAddress) ==
  /\ cellAddress \in DOMAIN worksheet
  /\ worksheet[cellAddress].type \in {"number", "string", "boolean"}
  /\ worksheet[cellAddress] # JsString(<<>>)

\* the reference year of the upload and the years the upload asks for
UploadYear ==
  IF yearConfig.defined /\ yearConfig.primaryYear # 0 THEN yearConfig.primaryYear
  ELSE currentYear
Wanted(year) ==
  yearConfig.defined => (year >= yearConfig.startYear /\ year <= yearConfig.endYear)

\* the cell of a cell-map entry for a year key, and the year of the key
CellFor(m, yearKey) == IF yearKey = "N" THEN m.cell_n ELSE m.cell_n1
YearFor(yearKey) == IF yearKey = "N" THEN UploadYear ELSE UploadYear - 1

\* C12: for every statement sheet missing from the workbook the result
\* carries the sheet-not-found warning, the filled cells of the sheets that
\* are present are extracted, and the workbook with none of the three sheets
\* gives empty data with the three warnings.
C12_MissingSheetsWarned ==
  (pc = "processed" /\ Readable(file)) =>
    /\ ~sheetResult.thrown
    /\ \A name \in expectedSheets \ Range(file.workbook.SheetNames) :
         SheetNotFound(name) \in Range(sheetResult.warnings)
    /\ \A s \in Range(sheetsToProcess) : \A m \in Range(s.mappings) :
       \A yearKey \in {"N", "N-1"} :
         ( /\ s.name \in DOMAIN file.workbook.Sheets
           /\ CellFilled(file.workbook.Sheets[s.name], CellFor(m, yearKey))
           /\ Wanted(YearFor(yearKey)) ) =>
           /\ yearKey \in DOMAIN sheetResult.data
           /\ m.field \in DOMAIN sheetResult.data[yearKey].data
    /\ expectedSheets \cap Range(file.workbook.SheetNames) = {} =>
         sheetResult.data = NoYears

\* C13: the extracted MultiyearData has only the keys 'N' and 'N-1', 'N' is
\* the reference year and 'N-1' the year before it, no two keys share a
\* year, and no year outside the requested range appears.
C13_YearKeys ==
  extraction.called =>
    /\ DOMAIN extraction.data \subseteq {"N", "N-1"}
    /\ "N" \in DOMAIN extraction.data => extraction.data["N"].year = UploadYear
    /\ "N-1" \in DOMAIN extraction.data => extraction.data["N-1"].year = UploadYear - 1
    /\ \A k1, k2 \in DOMAIN extraction.data :
         k1 # k2 => extraction.data[k1].year # extraction.data[k2].year
    /\ \A k \in DOMAIN extraction.data : Wanted(extraction.data[k].year)

\* both years extracted under a two-year range
C13_Witness ==
  /\ extraction.called
  /\ yearConfig = YearConfig(referenceYear, referenceYear - 1, referenceYear)
  /\ DOMAIN extraction.data = {"N", "N-1"}
  /\ extraction.data["N-1"].year = referenceYear - 1

\* some statement sheet has a filled cell of a year the upload asks for
OhadaExtractable ==
  \E s \in Range(sheetsToProcess) : \E m \in Range(s.mappings) : \E yearKey \in {"N", "N-1"} :
    /\ s.name \in DOMAIN file.workbook.Sheets
    /\ CellFilled(file.workbook.Sheets[s.name], CellFor(m, yearKey))
    /\ Wanted(YearFor(yearKey))

\* the first sheet has a row of a year from 2000 to 2030 with a filled column
GenericExtractable ==
  /\ Len(file.workbook.rows) >= 2
  /\ \E i \in 1..Len(file.workbook.rows) :
       LET row == file.workbook.rows[i]
       IN /\ Len(row) >= 2
          /\ YearInText(row[1], 1) \in 2000..2030
          /\ \E c \in 2..5 : c <= Len(row) /\ row[c] # <<>>

\* C14: on a readable Excel file processExcelFile fails, without data,
\* exactly when no field could be extracted for any year; otherwise it
\* succeeds with the extracted data and the collected warnings.
C14_FailsIffNothingExtracted ==
  (pc = "processed" /\ file.type \in validTypes /\ file.size <= MaxFileSize
     /\ file.readable) =>
    /\ ~fileResult.success <=> ~(OhadaExtractable \/ GenericExtractable)
    /\ ~fileResult.success => fileResult.data = NoYears
    /\ fileResult.success =>
         /\ DOMAIN fileResult.data # {}
         /\ \A k \in DOMAIN fileResult.data : DOMAIN fileResult.data[k].data # {}
         /\ fileResult.data = sheetResult.data
         /\ fileResult.warnings = sheetResult.warnings

\* only the income statement present: year 'N' extracted, two sheets warned
C14_Witness ==
  /\ pc = "processed"
  /\ file.workbook.SheetNames = <<"CR">>
  /\ fileResult.success
  /\ DOMAIN fileResult.data = {"N"}
  /\ {SheetNotFound("Bilan"), SheetNotFound("TFT")} \subseteq Range(fileResult.warnings)

\* C17: a second pass of calculateDerivedFields over its own output leaves
\* every field of every year unchanged.
C17_DerivedFieldsIdempotent ==
  passes >= 2 => derivedData = derivedBefore

\* a trading margin and a revenue of 2 each: the total 4 after two passes
C17_Witness ==
  /\ passes = 2
  /\ DOMAIN derivedData["N"].data =
       {"marge_commerciale", "chiffre_affaires", "total_produits_exploitation"}
  /\ derivedData["N"].data["marge_commerciale"] = Num(2)
  /\ derivedData["N"].data["chiffre_affaires"] = Num(2)
  /\ derivedData["N"].data["total_produits_exploitation"] = Num(4)

\* C18: whenever the state holds analysis data, its score, insights and
\* recommendations are those of calculateAnalysis on the stored
\* MultiyearData for the sector selected now.
C18_DerivedResultsFollowSector ==
  state.analysisData.present =>
    LET result == calculateAnalysis(state.analysisData.multiyear_data, state.sector)
    IN /\ state.analysisData.score = result.score
       /\ state.analysisData.insights = result.insights
       /\ state.analysisData.recommendations = result.recommendations

PriorityRank(priority) ==
  CASE priority = "high" -> 1 [] priority = "medium" -> 2 [] priority = "low" -> 3

\* insight lists other than the one the analysis produced
OtherInsights ==
  {<<>>,
   <<Insight("liquidity", "warning", "Liquidite insuffisante", "high")>>,
   <<Insight("profitability", "negative", "Deterioration de la rentabilite", "high"),
     Insight("leverage", "warning", "Autonomie financiere faible", "high")>>}

\* C19: the recommendations depend on the latest ratios only (any insight
\* list and any sector give the same list), 'high' items come before
\* 'medium' ones before the 'low' one, and the list ends with the single
\* low-priority monitoring recommendation.
C19_RecommendationsFromRatiosOnly ==
  Analysed =>
    LET recommendations == analysis.recommendations
        last == Len(recommendations)
    IN /\ \A sec \in Sectors : \A insights \in OtherInsights :
            generateRecommendations(analysis.ratios, insights, sec) = recommendations
       /\ \A i, j \in 1..last :
            i < j => PriorityRank(recommendations[i].priority)
                       <= PriorityRank(recommendations[j].priority)
       /\ last >= 1
       /\ recommendations[last] = Recommendation("low", "Surveillance Continue", "short-term")
       /\ \A i \in 1..(last - 1) : recommendations[i].priority # "low"

\* a sectoral analysis with a high, a medium and the low recommendation
C19_Witness ==
  /\ Analysed
  /\ sector = "industrie"
  /\ Len(analysis.recommendations) = 3
  /\ analysis.recommendations[1].priority = "high"
  /\ analysis.recommendations[2].priority = "medium"
  /\ analysis.recommendations[3].priority = "low"


\* the status evaluateCompliance gives to another value under the norm of
\* the recorded evaluation
StatusAt(value) ==
  evaluateCompliance(evaluation.ratioName, value, evaluation.norm).status

\* C20: under a minimum-threshold norm the status never gets worse when the
\* value grows (critical < poor < acceptable < good < excellent), and under a
\* maximum-threshold norm it never gets better.
C20_StatusMonotone ==
  evaluation # NoEvaluation =>
    LET hasMin == "min" \in DOMAIN evaluation.norm
        hasMax == "max" \in DOMAIN evaluation.norm
    IN \A v2 \in ValueGrid(evaluation.norm) :
         Leq(evaluation.value, v2) =>
           /\ (hasMin /\ ~hasMax) =>
                SeverityRank(evaluation.status) <= SeverityRank(StatusAt(v2))
           /\ (hasMax /\ ~hasMin) =>
                SeverityRank(evaluation.status) >= SeverityRank(StatusAt(v2))

\* an 'acceptable' value under a minimum threshold, with a smaller value
\* rated 'critical' and a larger one rated 'excellent'
C20_Witness ==
  /\ evaluation # NoEvaluation
  /\ "min" \in DOMAIN evaluation.norm
  /\ evaluation.status = "acceptable"
  /\ \E v0, v2 \in ValueGrid(evaluation.norm) :
       /\ Lt(v0, evaluation.value) /\ StatusAt(v0) = "critical"
       /\ Lt(evaluation.value, v2) /\ StatusAt(v2) = "excellent"

\* the year record the extraction example is said to give
StatementRecord ==
  [year |-> 2024,
   data |-> [total_actif |-> Num(10700000), capitaux_propres |-> Num(6000000),
             chiffre_affaires |-> Num(8000000), resultat_net |-> Num(1000000)]]

\* the upload reads year N of the reference year 2024
ReadsCurrentYear ==
  \/ ~yearConfig.defined
  \/ /\ yearConfig.primaryYear = 2024
     /\ yearConfig.startYear <= 2024 /\ 2024 <= yearConfig.endYear

\* C21: extracting the workbook whose only filled cells are Bilan!E35,
\* Bilan!I15, CR!E12 and CR!E46 with reference year 2024 gives an 'N' record
\* for 2024 whose data holds exactly total_actif, capitaux_propres,
\* chiffre_affaires and resultat_net with the values of the cells.
C21_ExactExtraction ==
  (extraction.called /\ file.workbook = StatementBook /\ ReadsCurrentYear) =>
    /\ "N" \in DOMAIN extraction.data
    /\ extraction.data["N"] = StatementRecord

\* the share of maxPoints, in tenths
Share(maxPoints, tenths) == JsMul(Num(maxPoints), Dec(tenths, 10))

\* C22: for a higher-is-better ratio with a min norm scoreRatio gives the
\* full points from optimal on, 70% from min up to optimal, 40% from
\* min * 0.7 up to min and 0 below; for the inverse ratio_endettement with a
\* max norm it gives the full points up to optimal, 70% up to max, 40% up to
\* max * 1.3 and 0 above.
C22_ScoreBands ==
  (scoring # NoScoring /\ "optimal" \in DOMAIN scoring.norm) =>
    LET v == scoring.value
        n == scoring.norm
        m == scoring.maxPoints
    IN /\ (~scoring.inverse /\ "min" \in DOMAIN n) =>
            scoring.points =
              IF Geq(v, n.optimal) THEN Num(m)
              ELSE IF Geq(v, n.min) THEN Share(m, 7)
              ELSE IF Geq(v, JsMul(n.min, Dec(7, 10))) THEN Share(m, 4)
              ELSE Num(0)
       /\ (scoring.inverse /\ scoring.ratioName = "ratio_endettement" /\ "max" \in DOMAIN n) =>
            scoring.points =
              IF Leq(v, n.optimal) THEN Num(m)
              ELSE IF Leq(v, n.max) THEN Share(m, 7)
              ELSE IF Leq(v, JsMul(n.max, Dec(13, 10))) THEN Share(m, 4)
              ELSE Num(0)

\* ratio_endettement in the tolerance band: above max, within max * 1.3
C22_Witness ==
  /\ scoring.ratioName = "ratio_endettement"
  /\ scoring.inverse
  /\ "optimal" \in DOMAIN scoring.norm
  /\ Gt(scoring.value, JsMul(scoring.norm.max, Dec(12, 10)))
  /\ Leq(scoring.value, JsMul(scoring.norm.max, Dec(13, 10)))
  /\ scoring.points = Num(8)

\* the points the claim gives an entry of a category: those of scoreRatio
\* when the ratio is in the result, none otherwise
ClaimedPoints(e) ==
  IF e.ratio \in DOMAIN analysis.ratios
  THEN scoreRatio(analysis.ratios[e.ratio], EffectiveNorms(sector)[e.ratio],
                  e.points, e.inverse)
  ELSE Num(0)

\* round(points / pool * 100), by the nearest-integer rule on a fraction
ClaimedDisplay(points, pool) ==
  (200 * points[1] + pool * points[2]) \div (2 * pool * points[2])

\* C23: an absent ratio adds nothing to its category while the category is
\* still divided by its fixed pool (liquidity 40, leverage 40, profitability
\* 30, efficiency 15); every displayed category score is
\* round(raw points / pool * 100) and lies in 0..100; trend is always 80.
C23_CategoryScores ==
  Analysed =>
    LET s == analysis.score
    IN /\ s.liquidity =
            ClaimedDisplay(JsAdd(ClaimedPoints(liquidityRatios[1]),
                                 ClaimedPoints(liquidityRatios[2])), 40)
       /\ s.leverage =
            ClaimedDisplay(JsAdd(ClaimedPoints(leverageRatios[1]),
                                 ClaimedPoints(leverageRatios[2])), 40)
       /\ s.profitability =
            ClaimedDisplay(JsAdd(JsAdd(ClaimedPoints(profitabilityRatios[1]),
                                       ClaimedPoints(profitabilityRatios[2])),
                                 ClaimedPoints(profitabilityRatios[3])), 30)
       /\ s.efficiency = ClaimedDisplay(ClaimedPoints(efficiencyRatios[1]), 15)
       /\ s.trend = 80
       /\ \A c \in {"liquidity", "leverage", "profitability", "efficiency", "trend"} :
            s[c] \in 0..100

\* roe in its top band and roa absent: 10 of the 30 points
C23_Witness ==
  /\ Analysed
  /\ "roe" \in DOMAIN analysis.ratios
  /\ DOMAIN analysis.ratios \cap {"roa", "marge_nette"} = {}
  /\ analysis.score.profitability = 33

\* a component of the operating revenue in a year's data, 0 when absent
Component(data, f) == IF f \in DOMAIN data THEN data[f] ELSE Num(0)

\* the sum of the components present in a year's data
ClaimedRevenue(data) ==
  JsAdd(JsAdd(JsAdd(JsAdd(JsAdd(JsAdd(
    Component(data, "marge_commerciale"), Component(data, "chiffre_affaires")),
    Component(data, "production_stockee")), Component(data, "production_immobilisee")),
    Component(data, "subvention_exploitation")), Component(data, "autres_produits")),
    Component(data, "transferts_charges"))

\* C24: after calculateDerivedFields, a year with at least one component of
\* the operating revenue that is not zero has total_produits_exploitation
\* equal to the sum of the components present, negative ones included; the
\* total is chiffre_affaires alone only when no other component is present.
C24_RevenueTotalIsSum ==
  passes >= 1 =>
    \A yearKey \in DOMAIN derivedData :
      LET before == derivedBefore[yearKey].data
          after == derivedData[yearKey].data
      IN (\E f \in Range(revenueComponents) \cap DOMAIN before : before[f] # Num(0)) =>
           /\ "total_produits_exploitation" \in DOMAIN after
           /\ after["total_produits_exploitation"] = ClaimedRevenue(before)

\* C25: calculateDerivedFields writes resultat_net only when the year's data
\* has none: a resultat_net that is present, the value 0 included, is left as
\* it is whatever resultat_exercice holds.
C25_NetResultKept ==
  passes >= 1 =>
    \A yearKey \in DOMAIN derivedData :
      LET before == derivedBefore[yearKey].data
          after == derivedData[yearKey].data
      IN "resultat_net" \in DOMAIN before =>
           /\ "resultat_net" \in DOMAIN after
           /\ after["resultat_net"] = before["resultat_net"]

\* C26: calculateRatios gives every ratio whose input fields are all present
\* and whose divisor is not zero, also when a numerator field is 0.
C26_ZeroNumeratorKept ==
  Analysed =>
    \A r \in DOMAIN RatioDivisor :
      (/\ RatioGuard(r) \subseteq DOMAIN LatestData
       /\ LatestData[RatioDivisor[r]] # 0)
        => r \in DOMAIN analysis.ratios

\* C27: a field read from a filled cell of the 'Bilan' sheet keeps the value
\* of that cell in the result of extractDataFromOhadaTemplate: the 'CR' and
\* 'TFT' sheets processed afterwards write no field the 'Bilan' sheet wrote.
C27_BilanFieldsKept ==
  (extraction.called /\ "Bilan" \in DOMAIN file.workbook.Sheets) =>
    \A m \in Range(sheetsToProcess[1].mappings) : \A yearKey \in {"N", "N-1"} :
      ( /\ CellFilled(file.workbook.Sheets["Bilan"], CellFor(m, yearKey))
        /\ Wanted(YearFor(yearKey)) ) =>
        /\ yearKey \in DOMAIN extraction.data
        /\ m.field \in DOMAIN extraction.data[yearKey].data
        /\ extraction.data[yearKey].data[m.field] =
             parseNumericValue(file.workbook.Sheets["Bilan"][CellFor(m, yearKey)])

\* C28: a session whose lastActivity is more than two hours old, and is not
\* updated, is eventually cleared: CLEAR_SESSION leaves analysisData,
\* analysisId, sessionId and lastActivity null
SessionExpired ==
  /\ state.lastActivity # NoDate
  /\ now - state.lastActivity > SessionTimeoutHours * 60
SessionCleared ==
  /\ ~state.analysisData.present
  /\ state.analysisId = "null"
  /\ state.sessionId = "null"
  /\ state.lastActivity = NoDate
C28_ExpiredSessionCleared == SessionExpired ~> (SessionCleared \/ ~SessionExpired)


\* C29: whenever state.sectoralNorms is not null it holds the norms that
\* were requested for the current state.sector, however setSector calls
\* interleave with the requests in flight
C29_NormsOfCurrentSector ==
  state.sectoralNorms # "null" => state.sectoralNorms = SectoralNormsOf(state.sector)


\* C30: every run of uploadAndAnalyze ends with isProcessing false,
\* uploadProgress 0 and an empty processingStep, whether it succeeds, the
\* Excel processing fails or an error is thrown; and a run that returns
\* success = false leaves the state's analysisData as it was, only a
\* successful run replaces it
RunEnds == upload.phase = "reading" /\ upload'.phase = "done"
C30_UploadEndsIdle ==
  [][RunEnds =>
       /\ ~analysisState'.isProcessing
       /\ analysisState'.uploadProgress = 0
       /\ analysisState'.processingStep = ""
       /\ ~upload'.success => state'.analysisData = state.analysisData
       /\ upload'.success =>
            /\ state'.analysisData.present
            /\ state'.analysisData.multiyear_data
                 = processExcelFile(upload.file, upload.config).data]_vars

\* a run that ended in the catch block after an earlier run had stored its
\* analysis
C30_Witness ==
  /\ upload.phase = "done"
  /\ ~upload.success
  /\ state.error # "null"
  /\ state.analysisData.present
  /\ ~analysisState.isProcessing

====
